---- MODULE Spec2Model ----
(***************************************************************************)
(* Model of run-llama/issue-classifier: the CountingSemaphore primitive    *)
(* (src/src/semaphore.ts:1-32), the units that use it (isGoodFirstIssue,   *)
(* areGoodFirstIssues, labelIssue) and the fetch -> classify -> label      *)
(* pipeline of main; and the functions of the stages run on their own:     *)
(* batchIssues, flattenBatchedIssues, areGoodFirstIssues, isGoodFirstIssue, *)
(* classifyIssues, labelIssues, labelIssue, getLastWeekIssuesSinglePage    *)
(* and the getters of the configuration; a timed run of operations started *)
(* together; and a run in which release is called without an acquire.      *)
(*                                                                         *)
(* Scheduling is single-threaded and cooperative: every action below is    *)
(* the code that runs between two suspension points of one task.           *)
(***************************************************************************)
EXTENDS Integers, Sequences, FiniteSets, TLC

\* ------------------------------------------------------------------ bounds
\* Largest max the constructor is called with in the semaphore specification.
MaxPermits == 3
\* Number of client tasks of the semaphore specification.
NumTasks == 5

\* Largest number of issues the upstream holds in the pipeline runs with a
\* short page.
MaxUnits == 8
\* Largest number of pages the fetch loop requests before the model stops it.
MaxPages == 2
\* Largest number of iterations of the sequential loop of runOperation.
MaxIters == 5
\* Largest number of issues batchIssues and classifyIssues are called with.
MaxItems == 21
\* Largest number of items in a response of the extraction.
MaxEntries == 2
\* Largest number of issues on a page answered to getLastWeekIssuesSinglePage.
MaxRaw == 2
\* Longest pause of an operation of the timed run, in units of time.
MaxPause == 2
\* Largest number of release calls without a matching acquire in the misuse run.
MaxExtra == 2

\* Largest number of batches flattenBatchedIssues is called with, when the
\* batches are not the chunks of batchIssues.
MaxBatches == 3

\* `new CountingSemaphore(5)` in classifyIssues and labelIssues.
StagePermits == 5
\* per_page of the issue request, and the length below which a page is short.
pageLength == 50
\* The number of issues of a batch of the classify stage.
issuesBatchSize == 10

Tasks == 1..NumTasks
Units == 1..MaxUnits
Stages == {"classify", "label"}
\* Constructor arguments tried: the two invalid values of the spec (0 and -1)
\* and every valid value up to MaxPermits.
CtorArgs == (-1)..MaxPermits
Labels == {"test", "classify"}
\* The constructor calls tried: every max with the label of the test, and
\* one call with the label of the classify stage.
ConstructorCalls == {c \in CtorArgs \X Labels : c[2] = "test" \/ c[1] = 2}
\* The logger each semaphore is constructed with: the one of the test is
\* getLogger("info"), the one of the classify stage is the logger of main.
LoggerOf(l) == IF l = "test" THEN "logger-info" ELSE "logger-debug"

VARIABLES
  ctorLabel,   \* label argument of the constructor call
  ctorMax,     \* max argument of the constructor call
  ctorLogger,  \* logger argument of the constructor call
  status,      \* "new" before the constructor ran, then "ok" or "threw"
  error,       \* message of the error the constructor threw, "" if none
  label,       \* semaphore.label
  max,         \* semaphore.max
  logger,      \* semaphore.logger
  count,       \* semaphore.count: the available permits
  waiters,     \* semaphore.waiters: pending acquires, oldest first (task ids)
  pc,          \* position of each client task; the tasks are named by
               \* arrival: task t is the t-th caller of acquire
  releases,    \* history: number of release calls each task made
  suspended,   \* history: tasks whose acquire was enqueued
  late,        \* history: tasks whose acquire ran while a woken waiter had not resumed
  seqPc,       \* position of the sequential loop: "off", "start", "waiting",
               \* "acquired", "holding", "threw"
  iter,        \* sequential loop: iterations completed
  before,      \* sequential loop: count as it was before the iteration's acquire
  lock,        \* sequential loop: the value `await semaphore.acquire()` gave
  stage,       \* position of main: "off" (no pipeline run), "fetch", "fetched",
               \* "classify", "label", "end" (main returned), "error" (main rejected)
  pageSize,    \* upstream: number of issues getLastWeekIssuesSinglePage(1) returns
               \* (the issues numbered 1..pageSize)
  skipped,     \* upstream: number of items of page 1 that the single-page fetch
               \* drops (pull requests, old issues, issues already labelled)
  later,       \* upstream: number of issues getLastWeekIssuesSinglePage(2) returns
               \* (the issues numbered pageLength + 1 ..)
  page,        \* getLastWeekIssues: the page number the loop requests
  pages,       \* number of page requests the fetch loop has made
  allIssues,   \* getLastWeekIssues: allIssues, the issue numbers pushed so far
  usem,        \* the semaphore of each stage: [count, waiters]
  upc,         \* position of each unit of each stage's fan-out
  positive,    \* issues whose classification gave Promise.all goodFirstIssue = true
  written,     \* the label writes requested: [number, labels] of each PATCH
  atReject,    \* history: the units that were waiting when the fan-in was rejected
  fn,          \* the function applied in a run of one function, "off" otherwise
  fnPc,        \* "off", "call" (about to be called), "returned" or "threw"
  arg,         \* the argument of the call
  ret,         \* what the call returned
  pauseMs,     \* timed run: the time `pause` takes, 0 when there is no timed run
  operations,  \* timed run: the number of operations started together
  clock,       \* timed run: the time elapsed since the operations were started
  tsem,        \* timed run: the semaphore, [max, count, waiters]
  tpc,         \* timed run: position of each operation
  finish,      \* timed run: the time at which the pause of each operation ends
  msem,        \* misuse run: the semaphore, [max, count, waiters]
  mpc,         \* misuse run: position of each task
  extra        \* misuse run: number of release calls that matched no acquire

semVars ==
  <<ctorLabel, ctorMax, ctorLogger, status, error, label, max, logger, count, waiters>>
taskVars == <<pc, releases, suspended, late>>
seqVars == <<seqPc, iter, before, lock>>
pipeVars ==
  <<stage, pageSize, skipped, later, page, pages, allIssues, usem, upc, positive, written,
    atReject>>
fnVars == <<fn, fnPc, arg, ret>>
timeVars == <<pauseMs, operations, clock, tsem, tpc, finish>>
misVars == <<msem, mpc, extra>>
vars == <<semVars, taskVars, seqVars, pipeVars, fnVars, timeVars, misVars>>

\* ------------------------------------------------------- CountingSemaphore
\* The message of the construction error.
ConstructionError(l, m) ==
  "The " \o l \o " semaphore was created with a max value of " \o ToString(m)
    \o " but the max value cannot be less than 1"

\* Fault: the guard accepts 0.
ConstructorThrows_negativeOnly(m) == m < 0

\* constructor: the guard that rejects the argument.
ConstructorThrows(m) == m < 1

\* Fault: the fast path is taken with no permit left.
acquire_offByOne(c, w, t) ==
  IF c >= 0
    THEN [count |-> c - 1, waiters |-> w, resolved |-> TRUE]
    ELSE [count |-> c, waiters |-> Append(w, t), resolved |-> FALSE]

\* Fault: the fast path resolves without taking the permit.
acquire_noDecrement(c, w, t) ==
  IF c > 0
    THEN [count |-> c, waiters |-> w, resolved |-> TRUE]
    ELSE [count |-> c, waiters |-> Append(w, t), resolved |-> FALSE]

\* Fault: the pending request is put at the head of the queue (unshift).
acquire_pushFront(c, w, t) ==
  IF c > 0
    THEN [count |-> c - 1, waiters |-> w, resolved |-> TRUE]
    ELSE [count |-> c, waiters |-> <<t>> \o w, resolved |-> FALSE]

\* acquire(): the synchronous body. With a free permit it takes it and the
\* returned promise is already resolved; otherwise the caller's resolve
\* callback is pushed at the tail of waiters.
acquire(c, w, t) ==
  IF c > 0
    THEN [count |-> c - 1, waiters |-> w, resolved |-> TRUE]
    ELSE [count |-> c, waiters |-> Append(w, t), resolved |-> FALSE]

\* Fault: the newest waiter is resolved (pop instead of shift).
release_lifo(c, w) ==
  IF Len(w) > 0
    THEN [count |-> c, waiters |-> SubSeq(w, 1, Len(w) - 1), woken |-> {w[Len(w)]}]
    ELSE [count |-> c + 1, waiters |-> w, woken |-> {}]

\* Fault: the permit goes back to the pool and the head waiter is woken to
\* take it again.
release_incrementThenWake(c, w) ==
  IF Len(w) > 0
    THEN [count |-> c + 1, waiters |-> Tail(w), woken |-> {Head(w)}]
    ELSE [count |-> c + 1, waiters |-> w, woken |-> {}]

\* Fault: every waiter is resolved by one release.
release_wakeAll(c, w) ==
  IF Len(w) > 0
    THEN [count |-> c, waiters |-> <<>>, woken |-> {w[i] : i \in DOMAIN w}]
    ELSE [count |-> c + 1, waiters |-> w, woken |-> {}]

\* Fault: the head waiter is shifted and its resolve is never called.
release_loseWaiter(c, w) ==
  IF Len(w) > 0
    THEN [count |-> c, waiters |-> Tail(w), woken |-> {}]
    ELSE [count |-> c + 1, waiters |-> w, woken |-> {}]

\* Fault: without waiters the permit is not given back.
release_noIncrement(c, w) ==
  IF Len(w) > 0
    THEN [count |-> c, waiters |-> Tail(w), woken |-> {Head(w)}]
    ELSE [count |-> c, waiters |-> w, woken |-> {}]

\* Fault: the head waiter is resolved and the one behind it is dropped too.
release_shiftTwo(c, w) ==
  IF Len(w) > 0
    THEN [count |-> c, waiters |-> IF Len(w) > 1 THEN Tail(Tail(w)) ELSE <<>>,
          woken |-> {Head(w)}]
    ELSE [count |-> c + 1, waiters |-> w, woken |-> {}]

\* Fault: the head waiter is resolved and stays in the queue.
release_resolveWithoutShift(c, w) ==
  IF Len(w) > 0
    THEN [count |-> c, waiters |-> w, woken |-> {Head(w)}]
    ELSE [count |-> c + 1, waiters |-> w, woken |-> {}]

\* release(): with waiters, shift the head and call its resolve (the permit
\* is handed over, count is untouched); otherwise count++.
release(c, w) ==
  IF Len(w) > 0
    THEN [count |-> c, waiters |-> Tail(w), woken |-> {Head(w)}]
    ELSE [count |-> c + 1, waiters |-> w, woken |-> {}]

\* ------------------------------------------------- semaphore and its clients
\* No pipeline run: the values the pipeline variables keep in a run of the
\* semaphore with its client tasks.
PipelineOff ==
  /\ stage = "off"
  /\ pageSize = 0
  /\ skipped = 0
  /\ later = 0
  /\ page = 0
  /\ pages = 0
  /\ allIssues = <<>>
  /\ usem = [s \in Stages |-> [count |-> 0, waiters |-> <<>>]]
  /\ upc = [s \in Stages |-> [u \in Units |-> "none"]]
  /\ positive = {}
  /\ written = {}
  /\ atReject = {}

\* No run of a single function.
FunctionOff ==
  /\ fn = "off"
  /\ fnPc = "off"
  /\ arg = <<>>
  /\ ret = <<>>

\* No misuse run.
MisuseOff ==
  /\ msem = [max |-> 0, count |-> 0, waiters |-> <<>>]
  /\ mpc = [t \in Tasks |-> "absent"]
  /\ extra = 0

\* No timed run.
TimedOff ==
  /\ pauseMs = 0
  /\ operations = 0
  /\ clock = 0
  /\ tsem = [max |-> 0, count |-> 0, waiters |-> <<>>]
  /\ tpc = [t \in Tasks |-> "absent"]
  /\ finish = [t \in Tasks |-> 0]

\* No sequential loop.
SequentialOff ==
  /\ seqPc = "off"
  /\ iter = 0
  /\ before = 0
  /\ lock = "none"

\* A constructor call about to run, with client tasks that have not started.
SemaphoreInit ==
  /\ \E c \in ConstructorCalls : ctorMax = c[1] /\ ctorLabel = c[2]
  /\ ctorLogger = LoggerOf(ctorLabel)
  /\ status = "new"
  /\ error = ""
  /\ label = ""
  /\ max = 0
  /\ logger = ""
  /\ count = 0
  /\ waiters = <<>>
  /\ pc = [t \in Tasks |-> "idle"]
  /\ releases = [t \in Tasks |-> 0]
  /\ suspended = {}
  /\ late = {}
  /\ SequentialOff
  /\ PipelineOff
  /\ FunctionOff
  /\ TimedOff
  /\ MisuseOff

\* Fault: the semaphore starts one permit short.
Construct_shortCount ==
  /\ status = "new"
  /\ IF ConstructorThrows(ctorMax)
       THEN /\ status' = "threw"
            /\ error' = ConstructionError(ctorLabel, ctorMax)
            /\ UNCHANGED <<label, max, logger, count, waiters>>
       ELSE /\ status' = "ok"
            /\ label' = ctorLabel
            /\ max' = ctorMax
            /\ logger' = ctorLogger
            /\ count' = ctorMax - 1
            /\ waiters' = <<>>
            /\ UNCHANGED error
  /\ UNCHANGED <<ctorLabel, ctorMax, ctorLogger, taskVars, seqVars, pipeVars, fnVars, timeVars, misVars>>

\* Fault: the semaphore makes its own logger instead of keeping the one given.
Construct_ownLogger ==
  /\ status = "new"
  /\ IF ConstructorThrows(ctorMax)
       THEN /\ status' = "threw"
            /\ error' = ConstructionError(ctorLabel, ctorMax)
            /\ UNCHANGED <<label, max, logger, count, waiters>>
       ELSE /\ status' = "ok"
            /\ label' = ctorLabel
            /\ max' = ctorMax
            /\ logger' = "logger-info"
            /\ count' = ctorMax
            /\ waiters' = <<>>
            /\ UNCHANGED error
  /\ UNCHANGED <<ctorLabel, ctorMax, ctorLogger, taskVars, seqVars, pipeVars, fnVars, timeVars, misVars>>

\* new CountingSemaphore(label, max, logger)
Construct ==
  /\ status = "new"
  /\ IF ConstructorThrows(ctorMax)
       THEN /\ status' = "threw"
            /\ error' = ConstructionError(ctorLabel, ctorMax)
            /\ UNCHANGED <<label, max, logger, count, waiters>>
       ELSE /\ status' = "ok"
            /\ label' = ctorLabel
            /\ max' = ctorMax
            /\ logger' = ctorLogger
            /\ count' = ctorMax
            /\ waiters' = <<>>
            /\ UNCHANGED error
  /\ UNCHANGED <<ctorLabel, ctorMax, ctorLogger, taskVars, seqVars, pipeVars, fnVars, timeVars, misVars>>

\* A task calls `await semaphore.acquire()`. Tasks are interchangeable, so
\* they are numbered in the order they call.
Acquire(t) ==
  /\ status = "ok"
  /\ pc[t] = "idle"
  /\ \A u \in Tasks : u < t => pc[u] # "idle"
  /\ LET r == acquire(count, waiters, t) IN
       /\ count' = r.count
       /\ waiters' = r.waiters
       /\ pc' = [pc EXCEPT ![t] = IF r.resolved THEN "acquired" ELSE "waiting"]
       /\ suspended' = IF r.resolved THEN suspended ELSE suspended \cup {t}
  /\ late' = IF \E u \in Tasks : pc[u] = "woken" THEN late \cup {t} ELSE late
  /\ UNCHANGED <<ctorLabel, ctorMax, ctorLogger, status, error, label, max, logger, releases>>
  /\ UNCHANGED <<seqVars, pipeVars, fnVars, timeVars, misVars>>

\* Fault: a queued acquire gives up after a while and its caller goes on.
Resume_timeout(t) ==
  /\ pc[t] \in {"acquired", "woken", "waiting"}
  /\ pc' = [pc EXCEPT ![t] = "holding"]
  /\ UNCHANGED <<semVars, releases, suspended, late>>
  /\ UNCHANGED <<seqVars, pipeVars, fnVars, timeVars, misVars>>

\* The continuation of a resolved acquire runs: the task enters its try
\* block and starts the guarded operation.
Resume(t) ==
  /\ pc[t] \in {"acquired", "woken"}
  /\ pc' = [pc EXCEPT ![t] = "holding"]
  /\ UNCHANGED <<semVars, releases, suspended, late>>
  /\ UNCHANGED <<seqVars, pipeVars, fnVars, timeVars, misVars>>

\* The finally block of a unit: release(), then the unit settles as `how`.
Finally(t, how) ==
  /\ pc[t] = "holding"
  /\ LET r == release(count, waiters) IN
       /\ count' = r.count
       /\ waiters' = r.waiters
       /\ pc' = [u \in Tasks |->
                   IF u = t THEN how
                   ELSE IF u \in r.woken THEN "woken" ELSE pc[u]]
  /\ releases' = [releases EXCEPT ![t] = @ + 1]
  /\ UNCHANGED <<ctorLabel, ctorMax, ctorLogger, status, error, label, max, logger, suspended, late>>
  /\ UNCHANGED <<seqVars, pipeVars, fnVars, timeVars, misVars>>

\* The guarded operation returns.
OpReturn(t) == Finally(t, "done")

\* Fault: no finally block, the error leaves the unit with the permit.
OpThrow_noFinally(t) ==
  /\ pc[t] = "holding"
  /\ pc' = [pc EXCEPT ![t] = "failed"]
  /\ UNCHANGED <<semVars, releases, suspended, late, seqVars, pipeVars, fnVars, timeVars, misVars>>

\* The guarded operation throws.
OpThrow(t) == Finally(t, "failed")

\* ------------------------------------------------------- sequential loop
\* The value `await semaphore.acquire()` evaluates to: a lock handle whose
\* release() is the release of the semaphore that issued it.
AcquireResult == "handle"

\* `for (i...) await runOperation()` on a semaphore just constructed with a
\* valid max: no other client exists.
SequentialInit ==
  /\ ctorLabel = "test"
  /\ ctorMax \in 1..MaxPermits
  /\ ctorLogger = LoggerOf(ctorLabel)
  /\ status = "ok"
  /\ error = ""
  /\ label = ctorLabel
  /\ max = ctorMax
  /\ logger = ctorLogger
  /\ count = ctorMax
  /\ waiters = <<>>
  /\ pc = [t \in Tasks |-> "absent"]
  /\ releases = [t \in Tasks |-> 0]
  /\ suspended = {}
  /\ late = {}
  /\ seqPc = "start"
  /\ iter = 0
  /\ before = 0
  /\ lock = "none"
  /\ PipelineOff
  /\ FunctionOff
  /\ TimedOff
  /\ MisuseOff

\* runOperation is called: `await semaphore.acquire()`. The loop is client 0.
SeqAcquire ==
  /\ seqPc = "start"
  /\ iter < MaxIters
  /\ before' = count
  /\ LET r == acquire(count, waiters, 0) IN
       /\ count' = r.count
       /\ waiters' = r.waiters
       /\ seqPc' = IF r.resolved THEN "acquired" ELSE "waiting"
  /\ UNCHANGED <<ctorLabel, ctorMax, ctorLogger, status, error, label, max, logger, iter, lock>>
  /\ UNCHANGED <<taskVars, pipeVars, fnVars, timeVars, misVars>>

\* `const lock = await ...` resumes and the simulated operation starts.
SeqResume ==
  /\ seqPc = "acquired"
  /\ lock' = AcquireResult
  /\ seqPc' = "holding"
  /\ UNCHANGED <<semVars, iter, before, taskVars, pipeVars, fnVars, timeVars, misVars>>

\* Fault: runOperation returns without releasing the lock.
SeqRelease_noRelease ==
  /\ seqPc = "holding"
  /\ seqPc' = "start"
  /\ iter' = iter + 1
  /\ UNCHANGED <<semVars, before, lock, taskVars, pipeVars, fnVars, timeVars, misVars>>

\* The operation is over: `lock.release()`, and runOperation returns. A
\* value that is no handle has no release: the call throws.
SeqRelease ==
  /\ seqPc = "holding"
  /\ IF lock = "handle"
       THEN LET r == release(count, waiters) IN
              /\ count' = r.count
              /\ waiters' = r.waiters
              /\ seqPc' = IF 0 \in r.woken THEN "acquired" ELSE "start"
              /\ iter' = iter + 1
       ELSE /\ seqPc' = "threw"
            /\ UNCHANGED <<count, waiters, iter>>
  /\ UNCHANGED <<ctorLabel, ctorMax, ctorLogger, status, error, label, max, logger, before, lock>>
  /\ UNCHANGED <<taskVars, pipeVars, fnVars, timeVars, misVars>>

\* --------------------------------------------------------------- pipeline
\* No client tasks: the values the semaphore variables keep in a pipeline run.
SemaphoreOff ==
  /\ ctorLabel = ""
  /\ ctorMax = 0
  /\ ctorLogger = ""
  /\ status = "off"
  /\ error = ""
  /\ label = ""
  /\ max = 0
  /\ logger = ""
  /\ count = 0
  /\ waiters = <<>>
  /\ pc = [t \in Tasks |-> "absent"]
  /\ releases = [t \in Tasks |-> 0]
  /\ suspended = {}
  /\ late = {}
  /\ SequentialOff

\* The upstream of the pipeline runs holds the issues 1..pageSize, all on its
\* first page; as in the mocked page of the tests, issue 4 has a linked pull
\* request, issue 3 carries "bug" and issue 4 "enhancement".
HasPr(i) == i = 4
IssueLabels(i) ==
  IF i < 3 THEN <<>>
  ELSE IF i = 3 THEN <<"bug">>
  ELSE IF i = 4 THEN <<"enhancement">>
  ELSE <<"bug", "ui">>

\* What getLastWeekIssuesSinglePage(p) resolves to: the issues of page p
\* that it keeps. The upstream has a second page only after a first page of
\* pageLength items.
UpstreamPage(p) ==
  IF p = 1 THEN [i \in 1..pageSize |-> i]
  ELSE IF p = 2 /\ pageSize + skipped = pageLength
    THEN [i \in 1..later |-> pageLength + i]
  ELSE <<>>

\* The upstreams of the pipeline runs: one page of at most MaxUnits issues,
\* or one of pageLength issues, all kept; or a first page of pageLength items
\* of which the single-page fetch keeps one or two, followed by a second page
\* with one issue.
Upstreams ==
  {<<k, 0, 0>> : k \in (0..MaxUnits) \cup {pageLength}}
    \cup {<<k, pageLength - k, 1>> : k \in 1..2}

\* main has called getLastWeekIssues; the upstream holds pageSize issues on
\* page 1, a short page or a full one.
PipelineInit ==
  /\ stage = "fetch"
  /\ \E u \in Upstreams : pageSize = u[1] /\ skipped = u[2] /\ later = u[3]
  /\ page = 1
  /\ pages = 0
  /\ allIssues = <<>>
  /\ usem = [s \in Stages |-> [count |-> 0, waiters |-> <<>>]]
  /\ upc = [s \in Stages |-> [u \in Units |-> "none"]]
  /\ positive = {}
  /\ written = {}
  /\ atReject = {}
  /\ SemaphoreOff
  /\ FunctionOff
  /\ TimedOff
  /\ MisuseOff

\* The fan-out of a stage: `items.map((x) => unit(x, semaphore))` runs every
\* unit up to its `await semaphore.acquire()`, in the order of the list, on a
\* semaphore that starts with count c and waiters w. `todo` is the list
\* still to map, `pcs` the positions so far.
RECURSIVE FanOut(_, _, _, _)
FanOut(todo, c, w, pcs) ==
  IF todo = <<>>
    THEN [count |-> c, waiters |-> w, pcs |-> pcs]
    ELSE LET u == Head(todo)
             r == acquire(c, w, u)
         IN FanOut(Tail(todo), r.count, r.waiters,
                   [pcs EXCEPT ![u] = IF r.resolved THEN "acquired" ELSE "waiting"])

\* The units of `set`, a set of issue numbers, in increasing order.
RECURSIVE Ascending(_)
Ascending(set) ==
  IF set = {} THEN <<>>
  ELSE LET m == CHOOSE x \in set : \A y \in set : x <= y
       IN <<m>> \o Ascending(set \ {m})

\* A stage starts: a new semaphore of StagePermits permits and the fan-out
\* over `items`.
StartStage(s, items) ==
  LET f == FanOut(items, StagePermits, <<>>, [u \in Units |-> "none"]) IN
    /\ usem' = [usem EXCEPT ![s] = [count |-> f.count, waiters |-> f.waiters]]
    /\ upc' = [upc EXCEPT ![s] = f.pcs]

\* Fault: the fan-in is fulfilled by the first unit that returns.
PromiseAll_anyFulfilled(pcs) == \E u \in Units : pcs[u] = "ok"

\* Fault: the fan-in waits for every unit to settle and is fulfilled whatever
\* the outcomes (Promise.allSettled).
PromiseAll_allSettled(pcs) == \A u \in Units : pcs[u] \in {"none", "ok", "failed"}

\* await Promise.all(units): fulfilled once every unit has returned.
PromiseAllFulfilled(pcs) == \A u \in Units : pcs[u] \in {"none", "ok"}

\* await Promise.all(units): rejected once a unit has thrown.
PromiseAllRejected(pcs) == \E u \in Units : pcs[u] = "failed"

\* Fault: the issues with a linked pull request are kept.
filteredIssues_keepAll(issues) == issues

\* getLastWeekIssues: issues.filter((issue) => !issue.hasPr)
filteredIssues(issues) == SelectSeq(issues, LAMBDA i : ~HasPr(i))

\* One iteration of the loop of getLastWeekIssues: the page is requested
\* (`page` is a const, it is never changed), its issues without a linked pull
\* request are pushed, and the loop ends if the page is short.
FetchPage ==
  /\ stage = "fetch"
  /\ pages < MaxPages
  /\ pages' = pages + 1
  /\ LET issues == UpstreamPage(page) IN
       /\ allIssues' = allIssues \o filteredIssues(issues)
       /\ stage' = IF Len(issues) < pageLength THEN "fetched" ELSE "fetch"
  /\ UNCHANGED <<pageSize, skipped, later, page, usem, upc, positive, written, atReject>>
  /\ UNCHANGED <<semVars, taskVars, seqVars, fnVars, timeVars, misVars>>

\* main: `await getLastWeekIssues` resumes and calls classifyIssues(issues).
ClassifyStart ==
  /\ stage = "fetched"
  /\ stage' = "classify"
  /\ StartStage("classify", allIssues)
  /\ UNCHANGED <<pageSize, skipped, later, page, pages, allIssues, positive, written, atReject>>
  /\ UNCHANGED <<semVars, taskVars, seqVars, fnVars, timeVars, misVars>>

\* The classification result of a positive issue, as classifyIssues returns it.
GoodFirstIssueOf(u) == [number |-> u, goodFirstIssue |-> TRUE, labels |-> IssueLabels(u)]

\* Fault: the new label replaces the labels of the issue.
labelIssueRequest_replace(issue) ==
  [issue_number |-> issue.number, labels |-> <<"good first issue">>]

\* labelIssue: the PATCH request it sends.
labelIssueRequest(issue) ==
  [issue_number |-> issue.number, labels |-> Append(issue.labels, "good first issue")]

\* The continuations of resolved acquires are microtasks: they run in the
\* order they were queued, and the event loop runs all of them before it
\* delivers the next response of a pending request.
ContinuationPending(s) == {u \in Units : upc[s][u] \in {"acquired", "woken"}}

\* The continuation of a unit's resolved acquire runs: the guarded call
\* starts (in the label stage, the PATCH request is sent).
UnitResume(s, u) ==
  /\ upc[s][u] \in {"acquired", "woken"}
  /\ \A v \in ContinuationPending(s) : u <= v
  /\ upc' = [upc EXCEPT ![s][u] = "running"]
  /\ written' = IF s = "label"
                  THEN written \cup {labelIssueRequest(GoodFirstIssueOf(u))}
                  ELSE written
  /\ UNCHANGED <<stage, pageSize, skipped, later, page, pages, allIssues, usem, positive, atReject>>
  /\ UNCHANGED <<semVars, taskVars, seqVars, fnVars, timeVars, misVars>>

\* The response of the guarded call of a unit of stage s is delivered and its
\* finally block runs.
UnitFinally(s, u, how) ==
  /\ upc[s][u] = "running"
  /\ ContinuationPending(s) = {}
  /\ LET r == release(usem[s].count, usem[s].waiters) IN
       /\ usem' = [usem EXCEPT ![s] = [count |-> r.count, waiters |-> r.waiters]]
       /\ upc' = [upc EXCEPT ![s] =
                    [v \in Units |->
                       IF v = u THEN how
                       ELSE IF v \in r.woken THEN "woken" ELSE upc[s][v]]]

\* isGoodFirstIssue returns its result. Once Promise.all has rejected, the
\* result of a unit that returns goes nowhere.
ClassifyReturn(u) ==
  /\ UnitFinally("classify", u, "ok")
  /\ \E good \in BOOLEAN :
       positive' = IF good /\ stage = "classify" THEN positive \cup {u} ELSE positive
  /\ UNCHANGED <<stage, pageSize, skipped, later, page, pages, allIssues, written, atReject>>
  /\ UNCHANGED <<semVars, taskVars, seqVars, fnVars, timeVars, misVars>>

\* labelIssue returns.
LabelReturn(u) ==
  /\ UnitFinally("label", u, "ok")
  /\ UNCHANGED <<stage, pageSize, skipped, later, page, pages, allIssues, positive, written, atReject>>
  /\ UNCHANGED <<semVars, taskVars, seqVars, fnVars, timeVars, misVars>>

\* Fault: no finally block, the error leaves the unit with its permit.
UnitThrow_noFinally(s, u) ==
  /\ upc[s][u] = "running"
  /\ ContinuationPending(s) = {}
  /\ upc' = [upc EXCEPT ![s][u] = "failed"]
  /\ UNCHANGED <<stage, pageSize, skipped, later, page, pages, allIssues, usem, positive,
                 written, atReject>>
  /\ UNCHANGED <<semVars, taskVars, seqVars, fnVars, timeVars, misVars>>

\* The guarded call of a unit throws.
UnitThrow(s, u) ==
  /\ UnitFinally(s, u, "failed")
  /\ UNCHANGED <<stage, pageSize, skipped, later, page, pages, allIssues, positive, written, atReject>>
  /\ UNCHANGED <<semVars, taskVars, seqVars, fnVars, timeVars, misVars>>

\* classifyIssues: Promise.all is fulfilled, the results are filtered and
\* returned; main calls labelIssues(goodFirstIssues).
ClassifyJoin ==
  /\ stage = "classify"
  /\ PromiseAllFulfilled(upc["classify"])
  /\ stage' = "label"
  /\ StartStage("label", Ascending(positive))
  /\ UNCHANGED <<pageSize, skipped, later, page, pages, allIssues, positive, written, atReject>>
  /\ UNCHANGED <<semVars, taskVars, seqVars, fnVars, timeVars, misVars>>

\* labelIssues: Promise.all is fulfilled; main returns.
LabelJoin ==
  /\ stage = "label"
  /\ PromiseAllFulfilled(upc["label"])
  /\ stage' = "end"
  /\ UNCHANGED <<pageSize, skipped, later, page, pages, allIssues, usem, upc, positive, written, atReject>>
  /\ UNCHANGED <<semVars, taskVars, seqVars, fnVars, timeVars, misVars>>

\* Fault: the rejection cancels the units that have not been granted a permit.
StageReject_cancelWaiting ==
  /\ stage \in Stages
  /\ PromiseAllRejected(upc[stage])
  /\ stage' = "error"
  /\ atReject' = {u \in Units : upc[stage][u] = "waiting"}
  /\ usem' = [usem EXCEPT ![stage].waiters = <<>>]
  /\ upc' = [upc EXCEPT ![stage] =
               [u \in Units |-> IF upc[stage][u] = "waiting" THEN "cancelled" ELSE upc[stage][u]]]
  /\ UNCHANGED <<pageSize, skipped, later, page, pages, allIssues, positive, written>>
  /\ UNCHANGED <<semVars, taskVars, seqVars, fnVars, timeVars, misVars>>

\* Promise.all of the running stage is rejected: the stage throws, main
\* rejects and `main().catch(console.error)` ends the run. The other units
\* are not cancelled.
StageReject ==
  /\ stage \in Stages
  /\ PromiseAllRejected(upc[stage])
  /\ stage' = "error"
  /\ atReject' = {u \in Units : upc[stage][u] = "waiting"}
  /\ UNCHANGED <<pageSize, skipped, later, page, pages, allIssues, usem, upc, positive, written>>
  /\ UNCHANGED <<semVars, taskVars, seqVars, fnVars, timeVars, misVars>>

\* ------------------------------------------------------------ timed run
\* `operations` calls of runOperation are started together on a semaphore
\* just constructed; the pause of each takes pauseMs units of time.
TimedInit ==
  /\ pauseMs \in 1..MaxPause
  /\ operations \in 1..NumTasks
  /\ clock = 0
  /\ tsem \in {[max |-> m, count |-> m, waiters |-> <<>>] : m \in 1..MaxPermits}
  /\ tpc = [t \in Tasks |-> IF t <= operations THEN "idle" ELSE "absent"]
  /\ finish = [t \in Tasks |-> 0]
  /\ SemaphoreOff
  /\ PipelineOff
  /\ FunctionOff
  /\ MisuseOff

\* The operations are started, as by `items.map(() => runOperation())`: each
\* runs up to its `await semaphore.acquire()`, in order, at time 0.
TimedLaunch ==
  /\ pauseMs > 0
  /\ \E t \in Tasks : tpc[t] = "idle"
  /\ LET f == FanOut([i \in 1..operations |-> i], tsem.count, tsem.waiters, tpc) IN
       /\ tsem' = [tsem EXCEPT !.count = f.count, !.waiters = f.waiters]
       /\ tpc' = f.pcs
  /\ UNCHANGED <<pauseMs, operations, clock, finish>>
  /\ UNCHANGED <<semVars, taskVars, seqVars, pipeVars, fnVars, misVars>>

\* The continuation of a resolved acquire runs: `await pause(ms)` sets a
\* timer that ends pauseMs from now.
TimedResume(t) ==
  /\ tpc[t] \in {"acquired", "woken"}
  /\ tpc' = [tpc EXCEPT ![t] = "holding"]
  /\ finish' = [finish EXCEPT ![t] = clock + pauseMs]
  /\ UNCHANGED <<pauseMs, operations, clock, tsem>>
  /\ UNCHANGED <<semVars, taskVars, seqVars, pipeVars, fnVars, misVars>>

\* The timer of an operation has ended: `lock.release()` and runOperation
\* returns.
TimedRelease(t) ==
  /\ tpc[t] = "holding"
  /\ finish[t] = clock
  /\ LET r == release(tsem.count, tsem.waiters) IN
       /\ tsem' = [tsem EXCEPT !.count = r.count, !.waiters = r.waiters]
       /\ tpc' = [u \in Tasks |->
                    IF u = t THEN "done"
                    ELSE IF u \in r.woken THEN "woken" ELSE tpc[u]]
  /\ UNCHANGED <<pauseMs, operations, clock, finish>>
  /\ UNCHANGED <<semVars, taskVars, seqVars, pipeVars, fnVars, misVars>>

\* Time passes: no continuation is pending and no timer has ended, and some
\* operation is in its pause.
Tick ==
  /\ \E t \in Tasks : tpc[t] = "holding"
  /\ \A t \in Tasks : tpc[t] \notin {"acquired", "woken"}
  /\ \A t \in Tasks : tpc[t] = "holding" => finish[t] > clock
  /\ clock' = clock + 1
  /\ UNCHANGED <<pauseMs, operations, tsem, tpc, finish>>
  /\ UNCHANGED <<semVars, taskVars, seqVars, pipeVars, fnVars, misVars>>

\* ------------------------------------------------------------ misuse run
\* A semaphore just constructed whose clients also call release without a
\* matching acquire.
MisuseInit ==
  /\ msem \in {[max |-> m, count |-> m, waiters |-> <<>>] : m \in 1..MaxPermits}
  /\ mpc = [t \in Tasks |-> "idle"]
  /\ extra = 0
  /\ SemaphoreOff
  /\ PipelineOff
  /\ FunctionOff
  /\ TimedOff

\* What a release call does to the semaphore and the tasks of the misuse run.
MisuseRelease(positions) ==
  LET r == release(msem.count, msem.waiters) IN
    /\ msem' = [msem EXCEPT !.count = r.count, !.waiters = r.waiters]
    /\ mpc' = [u \in Tasks |-> IF u \in r.woken THEN "woken" ELSE positions[u]]

\* Fault: release does nothing when every permit is already free.
StrayRelease_guarded ==
  /\ msem.max > 0
  /\ extra < MaxExtra
  /\ extra' = extra + 1
  /\ IF msem.count >= msem.max
       THEN UNCHANGED <<msem, mpc>>
       ELSE MisuseRelease(mpc)
  /\ UNCHANGED <<semVars, taskVars, seqVars, pipeVars, fnVars, timeVars>>

\* semaphore.release() is called by code that holds no permit: on the fresh
\* semaphore, or a second time by a unit that has already released.
StrayRelease ==
  /\ msem.max > 0
  /\ extra < MaxExtra
  /\ extra' = extra + 1
  /\ MisuseRelease(mpc)
  /\ UNCHANGED <<semVars, taskVars, seqVars, pipeVars, fnVars, timeVars>>

\* A task of the misuse run calls `await semaphore.acquire()`.
MisuseAcquire(t) ==
  /\ mpc[t] = "idle"
  /\ \A u \in Tasks : u < t => mpc[u] # "idle"
  /\ LET r == acquire(msem.count, msem.waiters, t) IN
       /\ msem' = [msem EXCEPT !.count = r.count, !.waiters = r.waiters]
       /\ mpc' = [mpc EXCEPT ![t] = IF r.resolved THEN "acquired" ELSE "waiting"]
  /\ UNCHANGED <<extra, semVars, taskVars, seqVars, pipeVars, fnVars, timeVars>>

\* The continuation of its resolved acquire runs: the guarded operation starts.
MisuseResume(t) ==
  /\ mpc[t] \in {"acquired", "woken"}
  /\ mpc' = [mpc EXCEPT ![t] = "holding"]
  /\ UNCHANGED <<msem, extra, semVars, taskVars, seqVars, pipeVars, fnVars, timeVars>>

\* The guarded operation settles and the finally block releases.
MisuseFinally(t) ==
  /\ mpc[t] = "holding"
  /\ MisuseRelease([mpc EXCEPT ![t] = "done"])
  /\ UNCHANGED <<extra, semVars, taskVars, seqVars, pipeVars, fnVars, timeVars>>

\* ------------------------------------------------- functions run alone
\* A run of one function: fn names it, arg is the argument it is called
\* with, and the call leaves its result in ret.
FunctionRun(f, args) ==
  /\ fn = f
  /\ fnPc = "call"
  /\ arg \in args
  /\ ret = <<>>
  /\ SemaphoreOff
  /\ PipelineOff
  /\ TimedOff
  /\ MisuseOff

\* The smaller of two numbers.
Min(a, b) == IF a < b THEN a ELSE b

\* The issues numbered 101, 102, ... of the test data: n of them.
githubIssues(n) == [i \in 1..n |-> 100 + i]

\* Fault: the end index of the slice is taken as inclusive.
slice_inclusiveEnd(seq, start, end) == SubSeq(seq, start + 1, Min(end + 1, Len(seq)))

\* Array.prototype.slice(start, end) for 0 <= start <= end: the elements at
\* the 0-based indices start .. end - 1 that exist.
slice(seq, start, end) == SubSeq(seq, start + 1, Min(end, Len(seq)))

\* Fault: the loop runs while i <= issues.length, so that an input whose
\* length is a multiple of the batch size gets an empty last batch.
RECURSIVE batchIssuesFrom_inclusive(_, _, _)
batchIssuesFrom_inclusive(issues, i, batches) ==
  IF i <= Len(issues)
    THEN batchIssuesFrom_inclusive(issues, i + issuesBatchSize,
                                   Append(batches, slice(issues, i, i + issuesBatchSize)))
    ELSE batches

\* batchIssues: the loop `for (let i = 0; i < issues.length; i += issuesBatchSize)`
\* from index i on, with the batches pushed so far.
RECURSIVE batchIssuesFrom(_, _, _)
batchIssuesFrom(issues, i, batches) ==
  IF i < Len(issues)
    THEN batchIssuesFrom(issues, i + issuesBatchSize,
                         Append(batches, slice(issues, i, i + issuesBatchSize)))
    ELSE batches

\* batchIssues(issues)
batchIssues(issues) == batchIssuesFrom(issues, 0, <<>>)

\* batchIssues is called on a list of 0..MaxItems issues.
BatchIssuesInit == FunctionRun("batchIssues", {githubIssues(n) : n \in 0..MaxItems})

\* The call of batchIssues: it builds a new list and does not touch its argument.
CallBatchIssues ==
  /\ fn = "batchIssues"
  /\ fnPc = "call"
  /\ ret' = batchIssues(arg)
  /\ fnPc' = "returned"
  /\ UNCHANGED <<fn, arg, semVars, taskVars, seqVars, pipeVars, timeVars, misVars>>

\* The batch the classifier unit is called with when it runs alone: issue 101
\* with a label and issue 102 without.
testBatch ==
  << [number |-> 101, content |-> "Fix null pointer exception", hasPr |-> FALSE, labels |-> <<"bug">>],
     [number |-> 102, content |-> "", hasPr |-> FALSE, labels |-> <<>>] >>

\* issuesToMap(issues): the issue stored under each number (the last one of
\* that number in the list).
issuesToMap(issues) ==
  [n \in {issues[i].number : i \in DOMAIN issues} |->
     LET last == CHOOSE i \in DOMAIN issues :
                   /\ issues[i].number = n
                   /\ \A j \in DOMAIN issues : issues[j].number = n => j <= i
     IN issues[last]]

\* The values of the enum of GitHubIssueClassification.
Classifications == {"good-first-issue", "advanced"}

\* ClassifiedGitHubIssues.parse(data) succeeds: data has a list `issues`
\* whose items carry a classification of the enum. Otherwise parse throws.
ClassifiedGitHubIssuesValid(data) ==
  /\ data.hasIssues
  /\ \A i \in DOMAIN data.issues : data.issues[i].classification \in Classifications

\* Fault: only the items classified good-first-issue are pushed.
RECURSIVE extractLoop_positivesOnly(_, _, _, _)
extractLoop_positivesOnly(parsed, issuesMap, i, issues) ==
  IF i > Len(parsed) THEN issues
  ELSE LET issue == parsed[i] IN
    extractLoop_positivesOnly(parsed, issuesMap, i + 1,
      IF issue.issue_number \in DOMAIN issuesMap
           /\ issue.classification = "good-first-issue"
        THEN Append(issues,
               [labels |-> issuesMap[issue.issue_number].labels,
                number |-> issue.issue_number,
                goodFirstIssue |-> TRUE])
        ELSE issues)

\* extractDataToIssues: the loop over parsedData.issues from item i on, with
\* the results pushed so far. An item whose number is not in the map is skipped.
RECURSIVE extractLoop(_, _, _, _)
extractLoop(parsed, issuesMap, i, issues) ==
  IF i > Len(parsed) THEN issues
  ELSE LET issue == parsed[i] IN
    extractLoop(parsed, issuesMap, i + 1,
      IF issue.issue_number \in DOMAIN issuesMap
        THEN Append(issues,
               [labels |-> issuesMap[issue.issue_number].labels,
                number |-> issue.issue_number,
                goodFirstIssue |-> issue.classification = "good-first-issue"])
        ELSE issues)

\* extractDataToIssues(data, issuesMap, logger): what it returns, or that it
\* threw (the error of parse is not caught).
extractDataToIssues(data, issuesMap) ==
  IF ClassifiedGitHubIssuesValid(data)
    THEN [threw |-> FALSE, value |-> extractLoop(data.issues, issuesMap, 1, <<>>)]
    ELSE [threw |-> TRUE, value |-> <<>>]

\* areGoodFirstIssues(client, issues, ...) once the extraction has answered
\* with `response`: no data gives no result; data that is not an array is
\* extracted; of an array the first element is, if there is one. On an empty
\* batch its first statement, which reads `issues.at(0)!.number`, throws.
areGoodFirstIssues(issues, response) ==
  IF issues = <<>> THEN [threw |-> TRUE, value |-> <<>>]
  ELSE IF response.kind = "absent" THEN [threw |-> FALSE, value |-> <<>>]
  ELSE IF response.kind = "object"
    THEN extractDataToIssues(response.items[1], issuesToMap(issues))
  ELSE IF Len(response.items) > 0
    THEN extractDataToIssues(response.items[1], issuesToMap(issues))
    ELSE [threw |-> FALSE, value |-> <<>>]

\* The items a response may list: a number of the batch or an unknown one,
\* with a classification of the enum or another word.
ResponseEntries ==
  [issue_number : {101, 102, 116}, classification : Classifications \cup {"maybe"}]

\* Lists of at most n elements of S.
SeqUpTo(S, n) == UNION {[1..k -> S] : k \in 0..n}

\* The data objects of a response: without a list `issues`, or with one of
\* at most MaxEntries items.
ResponseObjects ==
  {[hasIssues |-> FALSE, issues |-> <<>>]}
    \cup {[hasIssues |-> TRUE, issues |-> l] : l \in SeqUpTo(ResponseEntries, MaxEntries)}

\* extractResponse.data: absent, one object, or an array of no or one object.
ExtractResponses ==
  {[kind |-> "absent", items |-> <<>>], [kind |-> "array", items |-> <<>>]}
    \cup {[kind |-> k, items |-> <<o>>] : k \in {"array", "object"}, o \in ResponseObjects}

\* areGoodFirstIssues is called on the test batch and the extraction answers.
AreGoodFirstIssuesInit ==
  FunctionRun("areGoodFirstIssues",
              {[issues |-> testBatch, response |-> r] : r \in ExtractResponses})

\* The call of areGoodFirstIssues settles.
CallAreGoodFirstIssues ==
  /\ fn = "areGoodFirstIssues"
  /\ fnPc = "call"
  /\ LET r == areGoodFirstIssues(arg.issues, arg.response) IN
       /\ ret' = r.value
       /\ fnPc' = IF r.threw THEN "threw" ELSE "returned"
  /\ UNCHANGED <<fn, arg, semVars, taskVars, seqVars, pipeVars, timeVars, misVars>>

\* labelIssue (the version that checks the response): the condition under
\* which it throws "Non-ok status returned by response".
labelIssueThrows(code) == code >= 299 \/ code < 200

\* The status codes a response may carry.
StatusCodes == 100..599

\* labelIssue is called for issue 1, labelled "ui", and the PATCH request is
\* answered with some status.
LabelIssueInit ==
  FunctionRun("labelIssue",
              {[issue |-> [number |-> 1, goodFirstIssue |-> TRUE, labels |-> <<"ui">>],
                status |-> c] : c \in StatusCodes})

\* The call of labelIssue settles: the request was sent, and the status of
\* the response decides between a return and a throw.
CallLabelIssue ==
  /\ fn = "labelIssue"
  /\ fnPc = "call"
  /\ ret' = labelIssueRequest(arg.issue)
  /\ fnPc' = IF labelIssueThrows(arg.status) THEN "threw" ELSE "returned"
  /\ UNCHANGED <<fn, arg, semVars, taskVars, seqVars, pipeVars, timeVars, misVars>>

\* Fault: a confidence of exactly 0.5 is accepted.
confident_atLeast(confidence) == confidence >= 50

\* isGoodFirstIssue: `resultItem.result.confidence > 0.5`. Confidences are
\* counted in hundredths.
confident(confidence) == confidence > 50

\* isGoodFirstIssue(client, issue, semaphore) once the classifier has
\* answered with `response`: the guarded call's result. No item, an item
\* without result or type, or a confidence that is not above 0.5 give
\* goodFirstIssue = false; otherwise the type decides.
isGoodFirstIssue(issue, response) ==
  IF Len(response.items) = 0
    THEN [number |-> issue.number, goodFirstIssue |-> FALSE, labels |-> issue.labels]
  ELSE LET resultItem == response.items[1] IN
    IF /\ resultItem.present
       /\ resultItem.hasResult
       /\ resultItem.type # ""
       /\ confident(resultItem.confidence)
      THEN [goodFirstIssue |-> resultItem.type = "good-first-issue",
            number |-> issue.number, labels |-> issue.labels]
      ELSE [number |-> issue.number, goodFirstIssue |-> FALSE, labels |-> issue.labels]

\* The first item of a classifier response: undefined, without result, or
\* with a result of some type ("" for a missing type) and confidence.
ClassifyItems ==
  {[present |-> FALSE, hasResult |-> FALSE, type |-> "", confidence |-> 0],
   [present |-> TRUE, hasResult |-> FALSE, type |-> "", confidence |-> 0]}
    \cup [present : {TRUE}, hasResult : {TRUE},
          type : Classifications \cup {""}, confidence : 0..100]

\* isGoodFirstIssue is called for an issue of the test batch and the
\* classifier answers with no item or with one.
IsGoodFirstIssueInit ==
  FunctionRun("isGoodFirstIssue",
              {[issue |-> testBatch[1], response |-> [items |-> l]] :
                 l \in {<<>>} \cup {<<i>> : i \in ClassifyItems}})

\* The guarded call of isGoodFirstIssue returns.
CallIsGoodFirstIssue ==
  /\ fn = "isGoodFirstIssue"
  /\ fnPc = "call"
  /\ ret' = isGoodFirstIssue(arg.issue, arg.response)
  /\ fnPc' = "returned"
  /\ UNCHANGED <<fn, arg, semVars, taskVars, seqVars, pipeVars, timeVars, misVars>>

\* Fault: only the results of the first batch are kept.
flattenBatchedIssues_firstBatch(batches) ==
  IF batches = <<>> THEN <<>> ELSE Head(batches)

\* flattenBatchedIssues(batches): the issues of every batch, batch after batch.
RECURSIVE flattenBatchedIssues(_)
flattenBatchedIssues(batches) ==
  IF batches = <<>> THEN <<>>
  ELSE Head(batches) \o flattenBatchedIssues(Tail(batches))

\* n fetched issues, numbered from 101 on.
fetchedIssues(n) ==
  [i \in 1..n |-> [number |-> 100 + i, content |-> "", hasPr |-> FALSE,
                   labels |-> IF i % 2 = 0 THEN <<"bug">> ELSE <<>>]]

\* What the extraction answers for a batch, by the way the classifier
\* behaves on it: it gives no data ("absent"), lists every issue of the batch
\* as good-first-issue ("all") or as advanced ("none"), lists the issues of
\* odd number as good-first-issue and the others as advanced ("odd"), or
\* lists only the first issue of the batch, as good-first-issue ("first").
Behaviours == {"absent", "all", "none", "odd", "first"}
ResponseFor(behaviour, batch) ==
  IF behaviour = "absent" THEN [kind |-> "absent", items |-> <<>>]
  ELSE [kind |-> "object",
        items |-> << [hasIssues |-> TRUE,
                      issues |->
                        [i \in 1..(IF behaviour = "first" THEN 1 ELSE Len(batch)) |->
                           [issue_number |-> batch[i].number,
                            classification |->
                              IF \/ behaviour \in {"all", "first"}
                                 \/ behaviour = "odd" /\ batch[i].number % 2 = 1
                                THEN "good-first-issue" ELSE "advanced"]]] >>]

\* classifyIssues(issues) once every unit of its fan-out has settled, the
\* unit of batch k having got the response responses[k]: the batches are
\* classified, Promise.all gives the results in the order of the batches (or
\* rejects if a unit threw), they are flattened and the positive ones kept.
classifyIssues(issues, responses) ==
  LET batches == batchIssues(issues)
      batchedResults == [k \in DOMAIN batches |-> areGoodFirstIssues(batches[k], responses[k])]
  IN IF \E k \in DOMAIN batches : batchedResults[k].threw
       THEN [threw |-> TRUE, value |-> <<>>]
       ELSE [threw |-> FALSE,
             value |-> SelectSeq(flattenBatchedIssues([k \in DOMAIN batches |-> batchedResults[k].value]),
                                 LAMBDA issue : issue.goodFirstIssue)]

\* classifyIssues is called on 0..MaxItems issues, and the classifier
\* behaves in one of the ways above on each batch.
ClassifyIssuesInit ==
  FunctionRun("classifyIssues",
              UNION {{[issues |-> fetchedIssues(n), behaviours |-> b] :
                        b \in [1..((n + issuesBatchSize - 1) \div issuesBatchSize) -> Behaviours]} :
                     n \in 0..MaxItems})

\* The call of classifyIssues settles.
CallClassifyIssues ==
  /\ fn = "classifyIssues"
  /\ fnPc = "call"
  /\ LET batches == batchIssues(arg.issues)
         r == classifyIssues(arg.issues,
                             [k \in DOMAIN batches |-> ResponseFor(arg.behaviours[k], batches[k])])
     IN /\ ret' = r.value
        /\ fnPc' = IF r.threw THEN "threw" ELSE "returned"
  /\ UNCHANGED <<fn, arg, semVars, taskVars, seqVars, pipeVars, timeVars, misVars>>

\* Label names are strings of characters, written as sequences so that
\* toLowerCase and includes can be computed.
LabelBug == <<"b", "u", "g">>
LabelGoodFirstIssue == <<"g", "o", "o", "d", " ", "f", "i", "r", "s", "t", " ", "i", "s", "s", "u", "e">>
LabelGoodFirstIssueCapitals == <<"G", "o", "o", "d", " ", "F", "i", "r", "s", "t", " ", "I", "s", "s", "u", "e">>
LabelFirstGoodIssue == <<"f", "i", "r", "s", "t", "-", "t", "i", "m", "e", "r", "s", ":", " ", "a", " ", "g", "o", "o", "d", " ", "I", "S", "S", "U", "E">>
LabelGoodIssue == <<"g", "o", "o", "d", " ", "i", "s", "s", "u", "e">>

UpperCase == <<"A", "B", "C", "D", "E", "F", "G", "H", "I", "J", "K", "L", "M", "N", "O", "P", "Q", "R", "S", "T", "U", "V", "W", "X", "Y", "Z">>
LowerCase == <<"a", "b", "c", "d", "e", "f", "g", "h", "i", "j", "k", "l", "m", "n", "o", "p", "q", "r", "s", "t", "u", "v", "w", "x", "y", "z">>

\* String.prototype.toLowerCase
toLowerCase(str) ==
  [i \in DOMAIN str |->
     IF \E k \in DOMAIN UpperCase : UpperCase[k] = str[i]
       THEN LowerCase[CHOOSE k \in DOMAIN UpperCase : UpperCase[k] = str[i]]
       ELSE str[i]]

\* String.prototype.includes
includes(str, word) ==
  \E i \in 0..(Len(str) - Len(word)) : SubSeq(str, i + 1, i + Len(word)) = word

\* Fault: the label is compared without toLowerCase.
isGoodFirstLabel_caseSensitive(name) ==
  /\ includes(name, <<"g", "o", "o", "d">>)
  /\ includes(name, <<"f", "i", "r", "s", "t">>)
  /\ includes(name, <<"i", "s", "s", "u", "e">>)

\* getLastWeekIssuesSinglePage: the test of a label name.
isGoodFirstLabel(name) ==
  /\ includes(toLowerCase(name), <<"g", "o", "o", "d">>)
  /\ includes(toLowerCase(name), <<"f", "i", "r", "s", "t">>)
  /\ includes(toLowerCase(name), <<"i", "s", "s", "u", "e">>)

\* getLastWeekIssuesSinglePage: the loop over issue.labels from label i on;
\* flag is isGoodFirstIssue and labs the names pushed so far. A label is a
\* string or an object that may have a name.
RECURSIVE labelsLoop(_, _, _, _)
labelsLoop(labels, i, flag, labs) ==
  IF i > Len(labels) THEN [isGoodFirstIssue |-> flag, labs |-> labs]
  ELSE LET l == labels[i] IN
    IF l.isString
      THEN labelsLoop(labels, i + 1, flag \/ isGoodFirstLabel(l.name), Append(labs, l.name))
      ELSE labelsLoop(labels, i + 1,
                      flag \/ (l.hasName /\ isGoodFirstLabel(l.name)),
                      IF l.hasName THEN Append(labs, l.name) ELSE labs)

\* getLastWeekIssuesSinglePage: the loop over response.data from item i on,
\* with the issues pushed so far. since is sinceDate.getTime().
RECURSIVE pageLoop(_, _, _, _)
pageLoop(data, since, i, issues) ==
  IF i > Len(data) THEN issues
  ELSE LET issue == data[i]
           l == labelsLoop(issue.labels, 1, FALSE, <<>>)
       IN pageLoop(data, since, i + 1,
            IF ~issue.defined THEN issues
            ELSE IF issue.pull_request THEN issues
            ELSE IF since > issue.created_at THEN issues
            ELSE IF ~l.isGoodFirstIssue
              THEN Append(issues,
                     [number |-> issue.number,
                      content |-> IF issue.bodyNull THEN "" ELSE issue.body,
                      hasPr |-> issue.linked,
                      labels |-> l.labs])
              ELSE issues)

\* getLastWeekIssuesSinglePage(page, ...) once the request has been answered
\* with `response`.
getLastWeekIssuesSinglePage(response, since) ==
  IF response.status = 200 /\ Len(response.data) > 0
    THEN pageLoop(response.data, since, 1, <<>>)
    ELSE <<>>

\* The issues a page of the upstream may hold, by what sets them apart: an
\* issue opened after the cutoff with a plain label, a pull request, an issue
\* opened before the cutoff, an issue opened at the cutoff with no body and a
\* linked pull request, issues that carry a good-first-issue label in
\* capitals or in other words, an issue whose labels come close, and null.
stringLabel(name) == [isString |-> TRUE, hasName |-> TRUE, name |-> name]
objectLabel(name) == [isString |-> FALSE, hasName |-> TRUE, name |-> name]
namelessLabel == [isString |-> FALSE, hasName |-> FALSE, name |-> <<>>]
plainIssue ==
  [defined |-> TRUE, pull_request |-> FALSE, created_at |-> 1001, bodyNull |-> FALSE,
   body |-> "hello world", linked |-> FALSE, labels |-> <<stringLabel(LabelBug)>>]
RawIssues ==
  {plainIssue,
   [plainIssue EXCEPT !.pull_request = TRUE],
   [plainIssue EXCEPT !.created_at = 999],
   [plainIssue EXCEPT !.created_at = 1000, !.bodyNull = TRUE, !.body = "",
                      !.linked = TRUE, !.labels = <<>>],
   [plainIssue EXCEPT !.labels = <<objectLabel(LabelGoodFirstIssueCapitals)>>],
   [plainIssue EXCEPT !.labels = <<stringLabel(LabelFirstGoodIssue), objectLabel(LabelBug)>>],
   [plainIssue EXCEPT !.labels = <<objectLabel(LabelGoodIssue), namelessLabel, stringLabel(LabelBug)>>],
   [plainIssue EXCEPT !.defined = FALSE]}

\* The page made of the issues `kinds`, numbered from 101 on.
rawPage(kinds) ==
  [i \in DOMAIN kinds |->
     [defined |-> kinds[i].defined, pull_request |-> kinds[i].pull_request,
      created_at |-> kinds[i].created_at, bodyNull |-> kinds[i].bodyNull,
      body |-> kinds[i].body, linked |-> kinds[i].linked,
      labels |-> kinds[i].labels, number |-> 100 + i]]

\* What `await octokit.request(...)` may give: a response with a status and
\* a page of at most MaxRaw issues, or an error thrown by the client.
PageResponses ==
  {[rejected |-> FALSE, status |-> c, data |-> rawPage(k)] :
     c \in {200, 201, 404}, k \in SeqUpTo(RawIssues, MaxRaw)}
    \cup {[rejected |-> TRUE, status |-> 500, data |-> <<>>]}

\* getLastWeekIssuesSinglePage is called with the cutoff at time 1000 and
\* the request is answered.
SinglePageInit ==
  FunctionRun("getLastWeekIssuesSinglePage",
              {[since |-> 1000, response |-> r] : r \in PageResponses})

\* The call of getLastWeekIssuesSinglePage settles: an error of the request
\* is not caught; a response is turned into the issues of the page.
CallSinglePage ==
  /\ fn = "getLastWeekIssuesSinglePage"
  /\ fnPc = "call"
  /\ IF arg.response.rejected
       THEN ret' = <<>> /\ fnPc' = "threw"
       ELSE /\ ret' = getLastWeekIssuesSinglePage(arg.response, arg.since)
            /\ fnPc' = "returned"
  /\ UNCHANGED <<fn, arg, semVars, taskVars, seqVars, pipeVars, timeVars, misVars>>

\* The batches of results of the test of flattenBatchedIssues: the issues
\* 201..205 and 206..210.
goodFirstIssues == << [i \in 1..5 |-> 200 + i], [i \in 1..5 |-> 205 + i] >>

\* flattenBatchedIssues is called on the chunks batchIssues made of 0..MaxItems
\* issues, on the batches of the test, or on at most MaxBatches batches of
\* no, one or two results.
FlattenBatchedIssuesInit ==
  FunctionRun("flattenBatchedIssues",
              {batchIssues(githubIssues(n)) : n \in 0..MaxItems}
                \cup {goodFirstIssues}
                \cup SeqUpTo({<<>>, <<201>>, <<202>>, <<202, 203>>}, MaxBatches))

\* The call of flattenBatchedIssues: it builds a new list.
CallFlattenBatchedIssues ==
  /\ fn = "flattenBatchedIssues"
  /\ fnPc = "call"
  /\ ret' = flattenBatchedIssues(arg)
  /\ fnPc' = "returned"
  /\ UNCHANGED <<fn, arg, semVars, taskVars, seqVars, pipeVars, timeVars, misVars>>

\* labelIssues(issues, ...) when no request fails: the PATCH requests of its
\* units, one for each item of the list, in the order of the list.
labelIssues(issues) == [k \in DOMAIN issues |-> labelIssueRequest(issues[k])]

\* An answer of the extraction that lists `items`.
listing(items) ==
  [kind |-> "object", items |-> << [hasIssues |-> TRUE, issues |-> items] >>]

\* main after the fetch, on eleven issues (two batches): the classifier
\* answers the first batch with at most MaxEntries items that name issues of
\* that batch or the issue of the other batch, and the second batch with
\* nothing or with its issue.
ClassifyAndLabelInit ==
  FunctionRun("labelIssues",
    {[issues |-> fetchedIssues(issuesBatchSize + 1), responses |-> <<listing(a), listing(b)>>] :
       a \in SeqUpTo([issue_number : {101, 102, 100 + issuesBatchSize + 1},
                      classification : Classifications], MaxEntries),
       b \in SeqUpTo([issue_number : {100 + issuesBatchSize + 1},
                      classification : Classifications], 1)})

\* main: `goodFirstIssues = await classifyIssues(issues)` and then
\* `await labelIssues(goodFirstIssues)`; ret is the list of the PATCH requests.
CallClassifyAndLabel ==
  /\ fn = "labelIssues"
  /\ fnPc = "call"
  /\ LET r == classifyIssues(arg.issues, arg.responses) IN
       /\ ret' = IF r.threw THEN <<>> ELSE labelIssues(r.value)
       /\ fnPc' = IF r.threw THEN "threw" ELSE "returned"
  /\ UNCHANGED <<fn, arg, semVars, taskVars, seqVars, pipeVars, timeVars, misVars>>

\* The value of an environment variable: not set (process.env.X is
\* undefined), set to the empty string, or set to a text.
EnvValues ==
  {[set |-> FALSE, value |-> ""], [set |-> TRUE, value |-> ""], [set |-> TRUE, value |-> "text"]}

\* process.env, as far as the getters read it.
Environments ==
  [GITHUB_TOKEN : EnvValues, LLAMA_CLOUD_API_KEY : EnvValues,
   REPOSITORY_OWNER : EnvValues, REPOSITORY_NAME : EnvValues]

\* `!x` for a value read from process.env: undefined and "" are falsy.
falsy(x) == ~x.set \/ x.value = ""

\* getOctokitClient(): the error it throws or the client it makes.
getOctokitClient(env) ==
  LET token == env.GITHUB_TOKEN IN
    IF falsy(token)
      THEN [threw |-> TRUE, value |-> [message |-> "GITHUB_TOKEN not found within environment"]]
      ELSE [threw |-> FALSE, value |-> [auth |-> token.value]]

\* getLlamaCloudClient(): the error it throws or the client it makes.
getLlamaCloudClient(env) ==
  LET apiKey == env.LLAMA_CLOUD_API_KEY IN
    IF falsy(apiKey)
      THEN [threw |-> TRUE, value |-> [message |-> "LLAMA_CLOUD_API_KEY not found within environment"]]
      ELSE [threw |-> FALSE, value |-> [apiKey |-> apiKey.value]]

\* Fault: the error is thrown only when both variables are missing.
getRepoDetails_bothMissing(env) ==
  LET owner == env.REPOSITORY_OWNER
      name == env.REPOSITORY_NAME
  IN IF falsy(owner) /\ falsy(name)
       THEN [threw |-> TRUE,
             value |-> [message |-> "REPOSITORY_NAME or REPOSITORY_OWNER not found within environment"]]
       ELSE [threw |-> FALSE, value |-> [owner |-> owner.value, name |-> name.value]]

\* getRepoDetails(): the error it throws or the details it returns.
getRepoDetails(env) ==
  LET owner == env.REPOSITORY_OWNER
      name == env.REPOSITORY_NAME
  IN IF falsy(owner) \/ falsy(name)
       THEN [threw |-> TRUE,
             value |-> [message |-> "REPOSITORY_NAME or REPOSITORY_OWNER not found within environment"]]
       ELSE [threw |-> FALSE, value |-> [owner |-> owner.value, name |-> name.value]]

\* The getters, and the stages that call them before their first request.
Getters == {"getOctokitClient", "getLlamaCloudClient", "getRepoDetails"}

\* One of the getters is about to be called in some environment.
GettersInit ==
  \E g \in Getters : FunctionRun(g, Environments)

\* The call of getOctokitClient settles.
CallGetOctokitClient ==
  /\ fn = "getOctokitClient"
  /\ fnPc = "call"
  /\ LET r == getOctokitClient(arg) IN
       /\ ret' = r.value
       /\ fnPc' = IF r.threw THEN "threw" ELSE "returned"
  /\ UNCHANGED <<fn, arg, semVars, taskVars, seqVars, pipeVars, timeVars, misVars>>

\* The call of getLlamaCloudClient settles.
CallGetLlamaCloudClient ==
  /\ fn = "getLlamaCloudClient"
  /\ fnPc = "call"
  /\ LET r == getLlamaCloudClient(arg) IN
       /\ ret' = r.value
       /\ fnPc' = IF r.threw THEN "threw" ELSE "returned"
  /\ UNCHANGED <<fn, arg, semVars, taskVars, seqVars, pipeVars, timeVars, misVars>>

\* The call of getRepoDetails settles.
CallGetRepoDetails ==
  /\ fn = "getRepoDetails"
  /\ fnPc = "call"
  /\ LET r == getRepoDetails(arg) IN
       /\ ret' = r.value
       /\ fnPc' = IF r.threw THEN "threw" ELSE "returned"
  /\ UNCHANGED <<fn, arg, semVars, taskVars, seqVars, pipeVars, timeVars, misVars>>

\* The caller of a getter goes on to its request with what the getter
\* returned: octokit.request(...) in the fetch and in labelIssue, the calls of
\* the LlamaCloud client in the classification, getLastWeekIssues(repoDetails)
\* in main. A getter that threw has ended its caller.
ExternalCall ==
  /\ fn \in Getters
  /\ fnPc = "returned"
  /\ fnPc' = "requested"
  /\ UNCHANGED <<fn, arg, ret, semVars, taskVars, seqVars, pipeVars, timeVars, misVars>>

\* ------------------------------------------------------------ specification
Init ==
  \/ SemaphoreInit
  \/ SequentialInit
  \/ PipelineInit
  \/ TimedInit
  \/ MisuseInit
  \/ BatchIssuesInit
  \/ AreGoodFirstIssuesInit
  \/ LabelIssueInit
  \/ IsGoodFirstIssueInit
  \/ ClassifyIssuesInit
  \/ SinglePageInit
  \/ GettersInit
  \/ ClassifyAndLabelInit
  \/ FlattenBatchedIssuesInit

Next ==
  \/ Construct
  \/ \E t \in Tasks : Acquire(t)
  \/ \E t \in Tasks : Resume(t)
  \/ \E t \in Tasks : OpReturn(t)
  \/ \E t \in Tasks : OpThrow(t)
  \/ SeqAcquire
  \/ SeqResume
  \/ SeqRelease
  \/ FetchPage
  \/ ClassifyStart
  \/ \E s \in Stages, u \in Units : UnitResume(s, u)
  \/ \E u \in Units : ClassifyReturn(u)
  \/ \E u \in Units : LabelReturn(u)
  \/ \E s \in Stages, u \in Units : UnitThrow(s, u)
  \/ ClassifyJoin
  \/ LabelJoin
  \/ StageReject
  \/ TimedLaunch
  \/ \E t \in Tasks : TimedResume(t)
  \/ \E t \in Tasks : TimedRelease(t)
  \/ Tick
  \/ StrayRelease
  \/ \E t \in Tasks : MisuseAcquire(t)
  \/ \E t \in Tasks : MisuseResume(t)
  \/ \E t \in Tasks : MisuseFinally(t)
  \/ CallBatchIssues
  \/ CallAreGoodFirstIssues
  \/ CallLabelIssue
  \/ CallIsGoodFirstIssue
  \/ CallClassifyIssues
  \/ CallSinglePage
  \/ CallGetOctokitClient
  \/ CallGetLlamaCloudClient
  \/ CallGetRepoDetails
  \/ ExternalCall
  \/ CallClassifyAndLabel
  \/ CallFlattenBatchedIssues

Spec == Init /\ [][Next]_vars

\* A step of a task or unit that holds a permit: the continuation of its
\* resolved acquire runs, or its guarded operation settles.
Progress ==
  \/ \E t \in Tasks : Resume(t) \/ OpReturn(t) \/ OpThrow(t)
  \/ \E s \in Stages, u \in Units : UnitResume(s, u) \/ UnitThrow(s, u)
  \/ \E u \in Units : ClassifyReturn(u) \/ LabelReturn(u)

\* The scheduling the event loop guarantees: the continuation of a resolved
\* promise runs, and a guarded operation that terminates settles. Nothing
\* is assumed about when a task calls acquire or when main goes on.
FairSpec == Spec /\ WF_vars(Progress)

\* ------------------------------------------------------------------ claims
\* Tasks that hold a permit: their acquire resolved and they have not released.
Holders == {t \in Tasks : pc[t] \in {"acquired", "woken", "holding"}}
\* Tasks that have called acquire.
Called == {t \in Tasks : pc[t] \notin {"idle", "absent"}}
\* No release has been called on the semaphore.
NoRelease == \A t \in Tasks : releases[t] = 0
\* The units of a stage, those that hold a permit, and those that settled.
UnitsOf(s) == {u \in Units : upc[s][u] # "none"}
UnitHolders(s) == {u \in Units : upc[s][u] \in {"acquired", "woken", "running"}}
UnitsSettled(s) == {u \in Units : upc[s][u] \in {"ok", "failed"}}
\* The place of unit u in the fan-out of its stage (1 for the first mapped).
Rank(s, u) == Cardinality({v \in UnitsOf(s) : v <= u})

\* C1: the tasks granted a permit and not yet released are at most max, for
\* every max >= 1 and every interleaving; the units of the classify stage and
\* of the label stage that hold a permit (guarded call pending or in flight)
\* are at most 5.
C1_AtMostMaxHolders ==
  /\ status = "ok" => Cardinality(Holders) <= max
  /\ \A s \in Stages : Cardinality(UnitHolders(s)) <= StagePermits

\* The cap is reached while another task is queued, after a release acted.
C1_Witness ==
  /\ status = "ok"
  /\ Cardinality({t \in Tasks : pc[t] = "holding"}) = max
  /\ Len(waiters) > 0
  /\ ~NoRelease

\* C2: permits go to suspended acquirers in arrival order: an acquire that
\* was enqueued is never still waiting once a later arrival has resolved, and
\* the queue keeps the arrival order (tasks and units are numbered by arrival).
C2_FifoGrant ==
  /\ \A a, b \in Tasks :
       (a < b /\ pc[a] = "waiting") => pc[b] \in {"idle", "waiting"}
  /\ \A i, j \in DOMAIN waiters : i < j => waiters[i] < waiters[j]
  /\ \A s \in Stages : \A a, b \in Units :
       (a < b /\ upc[s][a] = "waiting") => upc[s][b] \in {"none", "waiting"}

\* Two suspended acquirers: the earlier one has been resolved by a release,
\* the later one is still queued.
C2_Witness ==
  \E a, b \in suspended : a < b /\ pc[a] = "woken" /\ pc[b] = "waiting"

\* C3: with a non-empty waiter queue count is 0 (a release with waiters never
\* lets count become positive), and an acquire that finds waiters, such as one
\* arriving between a release and the resumption of the woken waiter, takes no
\* permit: it is appended behind every waiter and count stays 0.
C3_DirectHandOff ==
  /\ [](Len(waiters) > 0 => count = 0)
  /\ [](\A s \in Stages : Len(usem[s].waiters) > 0 => usem[s].count = 0)
  /\ [][\A t \in Tasks :
          (pc[t] = "idle" /\ pc'[t] # "idle" /\ Len(waiters) > 0)
            => /\ pc'[t] = "waiting"
               /\ waiters' = Append(waiters, t)
               /\ count' = 0]_vars

\* A waiter has been woken and has not resumed; an acquire that arrived in
\* that window sits at the tail of the queue behind an older waiter.
C3_Witness ==
  /\ \E t \in Tasks : pc[t] = "woken"
  /\ Len(waiters) >= 2
  /\ waiters[Len(waiters)] \in late
  /\ count = 0

\* The messages the constructor gives for the invalid arguments tried.
C4_Message(l, m) ==
  IF l = "test"
    THEN IF m = -1
           THEN "The test semaphore was created with a max value of -1 but the max value cannot be less than 1"
           ELSE "The test semaphore was created with a max value of 0 but the max value cannot be less than 1"
    ELSE IF m = -1
           THEN "The classify semaphore was created with a max value of -1 but the max value cannot be less than 1"
           ELSE "The classify semaphore was created with a max value of 0 but the max value cannot be less than 1"

C5_FirstMaxImmediate ==
  /\ (status \in {"ok", "threw"} /\ ctorMax >= 1) =>
       status = "ok" /\ error = "" /\ max = ctorMax /\ label = ctorLabel
  /\ (status = "ok" /\ seqPc = "off" /\ Called = {}) =>
       count = max /\ waiters = <<>>
  /\ (status = "ok" /\ seqPc = "off" /\ NoRelease /\ Cardinality(Called) <= max) =>
       /\ waiters = <<>>
       /\ suspended = {}
       /\ count = max - Cardinality(Called)
       /\ \A t \in Called : pc[t] \in {"acquired", "holding"}
  /\ \A s \in Stages : UnitsSettled(s) = {} =>
       \A u \in UnitsOf(s) :
         Rank(s, u) <= StagePermits => upc[s][u] \in {"acquired", "running"}

\* Exactly max acquires were issued on a fresh semaphore of max >= 2 and no
\* release: none is queued.
C5_Witness ==
  /\ status = "ok" /\ max >= 2
  /\ NoRelease
  /\ Cardinality(Called) = max
  /\ \A t \in Called : pc[t] \in {"acquired", "holding"}

\* C6: max + k acquires (k > 0) on a fresh semaphore before any release: the
\* first max resolved, the last k are suspended and the queue holds exactly
\* them in arrival order (in the stages: every unit after the fifth); and a
\* release that finds waiters resumes exactly one of them.
C6_ExactlyKSuspend ==
  /\ [](LET n == Cardinality(Called) IN
          (status = "ok" /\ seqPc = "off" /\ NoRelease /\ n > max) =>
            /\ waiters = [i \in 1..(n - max) |-> max + i]
            /\ suspended = (max + 1)..n
            /\ \A t \in 1..max : pc[t] \in {"acquired", "holding"}
            /\ \A t \in (max + 1)..n : pc[t] = "waiting")
  /\ [](\A s \in Stages : UnitsSettled(s) = {} =>
          /\ Len(usem[s].waiters) = Cardinality({u \in UnitsOf(s) : Rank(s, u) > StagePermits})
          /\ \A u \in UnitsOf(s) : Rank(s, u) > StagePermits => upc[s][u] = "waiting")
  /\ [][(\E t \in Tasks : releases'[t] = releases[t] + 1) /\ Len(waiters) > 0
          => /\ Cardinality({u \in Tasks : pc[u] = "waiting" /\ pc'[u] # "waiting"}) = 1
             /\ Cardinality({u \in Tasks : pc[u] # "woken" /\ pc'[u] = "woken"}) = 1
             /\ Len(waiters') = Len(waiters) - 1]_vars

\* max + k acquires with k >= 2, then the first release: exactly one of the
\* suspended callers has been resumed and no acquire came after it.
C6_Witness ==
  /\ status = "ok"
  /\ Cardinality({t \in Tasks : releases[t] = 1}) = 1
  /\ late = {}
  /\ Cardinality(Called) >= max + 2
  /\ Cardinality({t \in Tasks : pc[t] = "woken"}) = 1
  /\ Len(waiters) = Cardinality(Called) - max - 1

\* Tasks and units that called acquire and have not settled.
InFlight == {t \in Tasks : pc[t] \in {"waiting", "acquired", "woken", "holding"}}
UnitsInFlight(s) == UnitsOf(s) \ UnitsSettled(s)

\* C7: when resumed continuations run and guarded operations terminate, no
\* acquire stays suspended and no unit stays unfinished: a queued acquire
\* always has a permit holder ahead of it, and every task and every unit of
\* the stages that called acquire ends up settled, for every max >= 1.
C7_EveryAcquireResolves ==
  /\ []((\E t \in Tasks : pc[t] = "waiting") => Holders # {})
  /\ [](\A s \in Stages : Len(usem[s].waiters) > 0 => UnitHolders(s) # {})
  /\ <>[](InFlight = {} /\ \A s \in Stages : UnitsInFlight(s) = {})

\* Every task called acquire on a semaphore with fewer permits than tasks,
\* some were suspended, and all have completed.
C7_Witness ==
  /\ status = "ok"
  /\ suspended # {}
  /\ \A t \in Tasks : pc[t] \in {"done", "failed"}

\* C8: a unit has called release exactly once when it has settled, by return
\* or by throw, and never before; once a unit has failed, the permits in the
\* pool and those held still add up to max (5 in the stages).
C8_ReleasedOnEveryPath ==
  /\ \A t \in Tasks : releases[t] = IF pc[t] \in {"done", "failed"} THEN 1 ELSE 0
  /\ (\E t \in Tasks : pc[t] = "failed") => count + Cardinality(Holders) = max
  /\ \A s \in Stages : (\E u \in Units : upc[s][u] = "failed") =>
       usem[s].count + Cardinality(UnitHolders(s)) = StagePermits

\* A guarded call has thrown and a unit that was queued behind it holds the
\* permit now.
C8_Witness ==
  /\ \E t \in Tasks : pc[t] = "failed"
  /\ \E u \in suspended : pc[u] = "holding"

C10_StagesDoNotOverlap ==
  /\ stage = "fetch" => (UnitsOf("classify") = {} /\ UnitsOf("label") = {})
  /\ stage = "fetched" => (UnitsOf("classify") = {} /\ UnitsOf("label") = {})
  /\ UnitsOf("label") # {} =>
       /\ UnitsOf("classify") = UnitsSettled("classify")
       /\ stage \in {"label", "end", "error"}

\* A label write is in flight after several classification units returned.
C10_Witness ==
  /\ \E u \in Units : upc["label"][u] = "running"
  /\ Cardinality(UnitsSettled("classify")) >= 2

\* C11: the fetch loop requests successive pages and so ends on a finite
\* upstream: while the loop runs its next request asks for the page after
\* those already requested, and every page requested so far was a full page
\* of pageLength issues, also when the first page is a full page.
C11_FetchLoopTerminates ==
  stage = "fetch" =>
    /\ page = pages + 1
    /\ \A k \in 1..pages : Len(UpstreamPage(k)) >= pageLength

\* The issues a label write was requested for.
WrittenNumbers == {w.issue_number : w \in written}

\* C12: label writes are requested only for issues the classify stage
\* reported as good first issues, for every one of them once the label stage
\* has started its guarded calls (all of them when main returns), and each
\* write carries the labels of the issue, in their order, followed by
\* "good first issue".
C12_WritesExactlyThePositives ==
  /\ WrittenNumbers \subseteq positive
  /\ WrittenNumbers = {u \in Units : upc["label"][u] \in {"running", "ok", "failed"}}
  /\ stage = "end" => WrittenNumbers = positive
  /\ stage \in {"label", "end"} => UnitsOf("label") = positive
  /\ \A w \in written :
       /\ Len(w.labels) = Len(IssueLabels(w.issue_number)) + 1
       /\ \A i \in 1..Len(IssueLabels(w.issue_number)) :
            w.labels[i] = IssueLabels(w.issue_number)[i]
       /\ w.labels[Len(w.labels)] = "good first issue"
  /\ Cardinality(written) = Cardinality(WrittenNumbers)

\* main returned after labelling issues 3 and 5, which have labels, while
\* issue 1 was classified negative.
C12_Witness ==
  /\ stage = "end"
  /\ positive = {3, 5}
  /\ [issue_number |-> 3, labels |-> <<"bug", "good first issue">>] \in written
  /\ [issue_number |-> 5, labels |-> <<"bug", "ui", "good first issue">>] \in written

\* C13: a stage with a failed unit never completes (main goes no further than
\* its rejection); the rejection leaves the semaphore and the other units
\* untouched; and, when resumed continuations run and guarded operations end,
\* every unit that was queued when the fan-in was rejected is granted a permit
\* and runs its guarded operation to the end.
C13_FailFastWithoutCancel ==
  /\ []((\E u \in Units : upc["classify"][u] = "failed") => stage \in {"classify", "error"})
  /\ []((\E u \in Units : upc["label"][u] = "failed") => stage \in {"label", "error"})
  /\ [][(stage # "error" /\ stage' = "error") => (usem' = usem /\ upc' = upc)]_vars
  /\ [][\A s \in Stages : \A u \in Units :
          (stage = "error" /\ upc[s][u] = "waiting" /\ upc'[s][u] # "waiting")
            => upc'[s][u] = "woken"]_vars
  /\ <>[](stage = "error" =>
            \A u \in atReject : \E s \in Stages : upc[s][u] \in {"ok", "failed"})

\* The fan-in of the classify stage was rejected while units were queued,
\* and one of those units is running its guarded call now, the others of the
\* first five having settled.
C13_Witness ==
  /\ stage = "error"
  /\ \E u \in atReject : upc["classify"][u] = "running"
  /\ \E u \in Units : upc["classify"][u] = "ok"

\* C14: once a guarded call of the classify stage has thrown, the label stage
\* has no unit, no label write has been requested and main does not reach the
\* label stage.
C14_NoPartialContinuation ==
  (\E u \in Units : upc["classify"][u] = "failed") =>
    /\ stage \in {"classify", "error"}
    /\ UnitsOf("label") = {}
    /\ written = {}

\* One classification failed, the others returned with positive results,
\* and the run has ended in error.
C14_Witness ==
  /\ stage = "error"
  /\ \E u \in Units : upc["classify"][u] = "failed"
  /\ positive # {}
  /\ UnitsInFlight("classify") = {}

\* C15: batchIssues never fails and returns consecutive chunks of its input:
\* the j-th item of chunk k is item 10 (k - 1) + j of the input, every chunk
\* but the last has exactly 10 items and the last has 1 to 10, the chunks
\* cover the whole input (none for the empty input: 15 items give the chunks
\* 101..110 and 111..115), and the input is as it was before the call.
C15_BatchesAreConsecutiveChunks ==
  fn = "batchIssues" =>
    /\ fnPc # "threw"
    /\ arg = githubIssues(Len(arg))
    /\ fnPc = "returned" =>
         /\ Len(ret) = (Len(arg) + 9) \div 10
         /\ \A k \in 1..Len(ret) :
              /\ Len(ret[k]) = IF k < Len(ret) THEN 10 ELSE Len(arg) - 10 * (k - 1)
              /\ Len(ret[k]) \in 1..10
              /\ \A j \in 1..Len(ret[k]) : ret[k][j] = arg[10 * (k - 1) + j]
         /\ Len(arg) = 0 => ret = <<>>
         /\ Len(arg) = 15 =>
              ret = << <<101, 102, 103, 104, 105, 106, 107, 108, 109, 110>>,
                       <<111, 112, 113, 114, 115>> >>

\* batchIssues has returned the three chunks of 21 issues, the last of one item.
C15_Witness ==
  /\ fn = "batchIssues" /\ fnPc = "returned"
  /\ Len(arg) = 21
  /\ Len(ret) = 3 /\ ret[3] = <<121>>

\* The response lists no item: no data, an empty array or an empty list.
C16_NoItems(response) ==
  \/ response.items = <<>>
  \/ response.items[1].hasIssues /\ response.items[1].issues = <<>>

\* The response has not the shape of ClassifiedGitHubIssues: no list of
\* issues, or an item whose classification is no value of the enum.
C16_Unparseable(response) ==
  /\ response.items # <<>>
  /\ \/ ~response.items[1].hasIssues
     \/ \E i \in DOMAIN response.items[1].issues :
          response.items[1].issues[i].classification = "maybe"

\* C16: when the classifier's response lists no item or has an unparseable
\* shape the unit does not raise: it returns, and none of the issues it
\* returns is a good first issue.
C16_BadResponseIsNotRaised ==
  (fn = "areGoodFirstIssues" /\ fnPc # "call"
     /\ (C16_NoItems(arg.response) \/ C16_Unparseable(arg.response))) =>
    /\ fnPc = "returned"
    /\ \A i \in DOMAIN ret : ~ret[i].goodFirstIssue

\* C17: labelIssue throws exactly when the status of the response is not
\* 2xx: it returns for every status in 200..299, 200 and 299 included, and
\* throws for every other status.
C17_ThrowsExactlyOnNon2xx ==
  (fn = "labelIssue" /\ fnPc # "call") =>
    (fnPc = "threw" <=> arg.status \notin 200..299)

\* C19: the result of isGoodFirstIssue is a match exactly when the classifier
\* gave a first item with a result of type good-first-issue and a confidence
\* strictly above 0.5 (50 hundredths): no item, no result, the type advanced
\* or a confidence of 0.5 or less give goodFirstIssue = false; the result
\* carries the number and the labels of the issue.
C19_MatchNeedsConfidenceAboveHalf ==
  (fn = "isGoodFirstIssue" /\ fnPc = "returned") =>
    /\ ret.goodFirstIssue <=>
         /\ arg.response.items # <<>>
         /\ arg.response.items[1].present
         /\ arg.response.items[1].hasResult
         /\ arg.response.items[1].type = "good-first-issue"
         /\ arg.response.items[1].confidence >= 51
    /\ ret.number = arg.issue.number
    /\ ret.labels = arg.issue.labels

\* The classifier answered good-first-issue with a confidence of exactly
\* 0.5 and the issue was not taken as a match.
C19_Witness ==
  /\ fn = "isGoodFirstIssue" /\ fnPc = "returned"
  /\ arg.response.items # <<>>
  /\ arg.response.items[1].hasResult
  /\ arg.response.items[1].type = "good-first-issue"
  /\ arg.response.items[1].confidence = 50
  /\ ~ret.goodFirstIssue

\* The i-th issue of the input (number 100 + i, in batch (i + 9) \div 10) is
\* reported as a good first issue by the unit of its batch.
C18_Positive(i) ==
  LET behaviour == arg.behaviours[(i + 9) \div 10] IN
    \/ behaviour = "all"
    \/ behaviour = "odd" /\ (100 + i) % 2 = 1
    \/ behaviour = "first" /\ i % 10 = 1

\* C18: classifyIssues returns the positive results of its units and nothing
\* else: every item it returns has goodFirstIssue = true, and the numbers it
\* returns are those of the issues some unit reported as good first issue,
\* each once, in the order of the input, for zero, one or several batches.
C18_ReturnsExactlyThePositives ==
  (fn = "classifyIssues" /\ fnPc # "call") =>
    /\ fnPc = "returned"
    /\ \A k \in DOMAIN ret : ret[k].goodFirstIssue
    /\ {ret[k].number : k \in DOMAIN ret}
         = {100 + i : i \in {j \in 1..Len(arg.issues) : C18_Positive(j)}}
    /\ \A k, l \in DOMAIN ret : k < l => ret[k].number < ret[l].number
    /\ \A k \in DOMAIN ret :
         ret[k].labels = arg.issues[ret[k].number - 100].labels

\* Three batches: the first with every issue positive, the second with none,
\* the third with its only issue positive: 11 issues are returned.
C18_Witness ==
  /\ fn = "classifyIssues" /\ fnPc = "returned"
  /\ Len(arg.issues) = 21
  /\ arg.behaviours = <<"all", "none", "first">>
  /\ Len(ret) = 11 /\ ret[11].number = 121

\* The label names of the pages that contain the words good, first and
\* issue, whatever the case.
C20_GoodFirstIssueNames ==
  {LabelGoodFirstIssue, LabelGoodFirstIssueCapitals, LabelFirstGoodIssue}

\* The raw issue is one the single-page fetch must skip.
C20_Skipped(issue, since) ==
  \/ ~issue.defined
  \/ issue.pull_request
  \/ issue.created_at < since
  \/ \E i \in DOMAIN issue.labels :
       issue.labels[i].hasName /\ issue.labels[i].name \in C20_GoodFirstIssueNames

\* The names of the labels of a raw issue, in their order.
C20_Names(issue) ==
  LET named == SelectSeq(issue.labels, LAMBDA l : l.hasName)
  IN [i \in DOMAIN named |-> named[i].name]

\* C20: getLastWeekIssues returns only issues without a linked pull request
\* (and every such issue of the page); getLastWeekIssuesSinglePage returns,
\* in the order of the page, the issues that are no pull request, were not
\* created before the cutoff and carry no label containing good, first and
\* issue in any case, each with the names of its labels, with its body or ""
\* for a missing body, and with the result of the linked pull request check.
C20_FetchKeepsTheRightIssues ==
  /\ stage \in {"fetched", "classify", "label", "end", "error"} =>
       /\ \A k \in DOMAIN allIssues : ~HasPr(allIssues[k])
       /\ {allIssues[k] : k \in DOMAIN allIssues} = {i \in 1..pageSize : ~HasPr(i)}
  /\ (fn = "getLastWeekIssuesSinglePage" /\ fnPc = "returned") =>
       LET data == arg.response.data
           kept == IF arg.response.status = 200
                     THEN {i \in DOMAIN data : ~C20_Skipped(data[i], arg.since)}
                     ELSE {}
       IN /\ {ret[k].number : k \in DOMAIN ret} = {data[i].number : i \in kept}
          /\ \A k, l \in DOMAIN ret : k < l => ret[k].number < ret[l].number
          /\ \A k \in DOMAIN ret :
               LET issue == data[ret[k].number - 100] IN
                 /\ ret[k].labels = C20_Names(issue)
                 /\ ret[k].content = IF issue.bodyNull THEN "" ELSE issue.body
                 /\ ret[k].hasPr = issue.linked

\* A page of two issues: the first carries the label "Good First Issue" and
\* is skipped, the second has no body and is returned with content "".
C20_Witness ==
  /\ fn = "getLastWeekIssuesSinglePage" /\ fnPc = "returned"
  /\ Len(arg.response.data) = 2
  /\ arg.response.data[1].labels = <<objectLabel(LabelGoodFirstIssueCapitals)>>
  /\ Len(ret) = 1
  /\ ret[1].number = 102 /\ ret[1].content = "" /\ ret[1].hasPr

\* C21: the sequential loop of acquire, operate, release never suspends in
\* acquire, whether it runs fewer or more iterations than max: no waiter is
\* ever queued, the loop holds one permit while it operates, and between two
\* iterations count is max again.
C21_SequentialNeverSuspends ==
  seqPc # "off" =>
    /\ seqPc # "waiting"
    /\ waiters = <<>>
    /\ seqPc = "start" => count = max
    /\ seqPc \in {"acquired", "holding"} => count = max - 1

\* More iterations than max have completed on a semaphore of several permits.
C21_Witness == seqPc = "start" /\ max >= 2 /\ iter > max /\ count = max

\* The operations of the timed run have all released their permit.
TimedAllDone ==
  /\ pauseMs > 0
  /\ \A t \in Tasks : tpc[t] \in {"done", "absent"}

\* C22: N operations started together that each hold a permit for d units
\* of time: when N > max the last release comes no earlier than
\* ceil(N / max) * d after the first acquire; when N <= max no operation is
\* suspended, all overlap, and the last release comes d after the start.
C22_SerializationTakesTime ==
  /\ (TimedAllDone /\ operations > tsem.max) =>
       clock >= ((operations + tsem.max - 1) \div tsem.max) * pauseMs
  /\ (pauseMs > 0 /\ operations <= tsem.max) =>
       /\ \A t \in Tasks : tpc[t] # "waiting" /\ tpc[t] # "woken"
       /\ TimedAllDone => clock = pauseMs
       /\ clock < pauseMs =>
            \/ \A t \in Tasks : tpc[t] \in {"idle", "absent"}
            \/ \A t \in Tasks : tpc[t] \in {"acquired", "holding", "absent"}

\* Five operations on two permits, each pausing two units of time, have all
\* finished: three rounds, six units of time.
C22_Witness ==
  /\ TimedAllDone
  /\ operations = 5 /\ tsem.max = 2 /\ pauseMs = 2
  /\ clock = 6

C24_BatchIssue(issues, n) == issues[CHOOSE i \in DOMAIN issues : issues[i].number = n]

\* C24: from a response of the classifier's shape, extractDataToIssues
\* returns one result for each classified item whose number is a number of the
\* batch, in the order of the response; the result has the number of the item,
\* the labels of the issue of the batch, and goodFirstIssue = true exactly
\* when the item is classified good-first-issue; items with a number that is
\* not in the batch give no result.
C24_ExtractsTheBatchItems ==
  (fn = "areGoodFirstIssues" /\ fnPc = "returned" /\ arg.response.items # <<>>) =>
    LET numbers == {arg.issues[i].number : i \in DOMAIN arg.issues}
        kept == SelectSeq(arg.response.items[1].issues,
                          LAMBDA item : item.issue_number \in numbers)
    IN /\ Len(ret) = Len(kept)
       /\ \A k \in DOMAIN ret :
            /\ ret[k].number = kept[k].issue_number
            /\ ret[k].labels = C24_BatchIssue(arg.issues, kept[k].issue_number).labels
            /\ ret[k].goodFirstIssue <=> kept[k].classification = "good-first-issue"

\* The classifier listed issue 102 as good-first-issue and then issue 101 as
\* advanced: both come back, in that order, 101 with its label.
C24_Witness ==
  /\ fn = "areGoodFirstIssues" /\ fnPc = "returned"
  /\ arg.response.items # <<>>
  /\ Len(ret) = 2
  /\ ret[1] = [labels |-> <<>>, number |-> 102, goodFirstIssue |-> TRUE]
  /\ ret[2] = [labels |-> <<"bug">>, number |-> 101, goodFirstIssue |-> FALSE]

\* C25: when the issue source answers a page request with a status that is
\* not a success status, getLastWeekIssuesSinglePage fails: it does not
\* return a page.
C25_NonSuccessFailsTheFetch ==
  (fn = "getLastWeekIssuesSinglePage" /\ fnPc # "call"
     /\ arg.response.status \notin 200..299) => fnPc = "threw"

\* The variables a getter reads that have no value in the environment
\* (not set, or set to the empty string).
C26_Missing(g, env) ==
  LET reads == IF g = "getOctokitClient" THEN {env.GITHUB_TOKEN}
               ELSE IF g = "getLlamaCloudClient" THEN {env.LLAMA_CLOUD_API_KEY}
               ELSE {env.REPOSITORY_OWNER, env.REPOSITORY_NAME}
  IN {v \in reads : v = [set |-> FALSE, value |-> ""] \/ v = [set |-> TRUE, value |-> ""]}

\* The message of the error of each getter.
C26_Message(g) ==
  IF g = "getOctokitClient" THEN "GITHUB_TOKEN not found within environment"
  ELSE IF g = "getLlamaCloudClient" THEN "LLAMA_CLOUD_API_KEY not found within environment"
  ELSE "REPOSITORY_NAME or REPOSITORY_OWNER not found within environment"

\* C26: each getter throws exactly when a variable it reads has no value:
\* getOctokitClient for GITHUB_TOKEN, getLlamaCloudClient for
\* LLAMA_CLOUD_API_KEY, getRepoDetails for either of REPOSITORY_OWNER and
\* REPOSITORY_NAME; the error names the variable, and its caller makes the
\* request only after the getter has returned, never after it threw.
C26_MissingConfigurationThrowsFirst ==
  /\ [](fn \in Getters /\ fnPc # "call" =>
          /\ fnPc = "threw" <=> C26_Missing(fn, arg) # {}
          /\ fnPc = "threw" => ret = [message |-> C26_Message(fn)])
  /\ [](fn \in Getters /\ fnPc = "requested" => C26_Missing(fn, arg) = {})
  /\ [][(fn \in Getters /\ fnPc = "threw") => (fnPc' = "threw")]_vars

\* getRepoDetails has thrown with the owner set and the name not set.
C26_Witness ==
  /\ fn = "getRepoDetails" /\ fnPc = "threw"
  /\ arg.REPOSITORY_OWNER.set /\ arg.REPOSITORY_OWNER.value = "text"
  /\ ~arg.REPOSITORY_NAME.set

\* The step is a call of release by task t.
ReleaseCall(t) == releases'[t] = releases[t] + 1

\* C27: a release that finds no waiter adds exactly 1 to count, leaves the
\* queue empty and resolves nobody; a release that finds waiters removes the
\* head of the queue and nothing else, resolves that waiter and no other,
\* and leaves count as it was.
C27_ReleaseFrame ==
  [][\A t \in Tasks : ReleaseCall(t) =>
       IF waiters = <<>>
         THEN /\ count' = count + 1
              /\ waiters' = <<>>
              /\ \A u \in Tasks \ {t} : pc'[u] = pc[u]
         ELSE /\ count' = count
              /\ waiters' = Tail(waiters)
              /\ pc[Head(waiters)] = "waiting" /\ pc'[Head(waiters)] = "woken"
              /\ \A u \in Tasks \ {t, Head(waiters)} : pc'[u] = pc[u]]_vars

\* A release found three waiters: the first has been resolved, the other two
\* are still queued in their order, and no permit is free.
C27_Witness ==
  /\ status = "ok" /\ count = 0
  /\ Cardinality({t \in Tasks : releases[t] = 1}) = 1
  /\ Len(waiters) = 2
  /\ \E t \in Tasks : pc[t] = "woken" /\ t < waiters[1] /\ waiters[1] < waiters[2]

\* C28: an acquire that finds count > 0 takes exactly 1 from count, is
\* resolved at once and leaves the queue as it was; an acquire that finds
\* count = 0 leaves count as it was and appends its request, and only that,
\* at the tail of the queue; a queued request is resolved only by a release
\* call that finds it at the head of the queue.
C28_AcquireFrame ==
  /\ [][\A t \in Tasks : (pc[t] = "idle" /\ pc'[t] # "idle") =>
          IF count > 0
            THEN /\ count' = count - 1
                 /\ waiters' = waiters
                 /\ pc'[t] = "acquired"
            ELSE /\ count' = count
                 /\ waiters' = Append(waiters, t)
                 /\ pc'[t] = "waiting"]_vars
  /\ [][\A t \in Tasks : (pc[t] = "waiting" /\ pc'[t] # "waiting") =>
          /\ waiters # <<>> /\ Head(waiters) = t
          /\ pc'[t] = "woken"
          /\ \E u \in Tasks \ {t} : ReleaseCall(u)]_vars

\* A task took the fast path, a later one was queued behind another waiter
\* and has since been handed a permit, and a third one is still queued.
C28_Witness ==
  /\ status = "ok"
  /\ \E a \in Tasks \ suspended : pc[a] \in {"holding", "done"}
  /\ \E b, c \in suspended : b < c /\ pc[c] = "holding"
  /\ \E d \in suspended : pc[d] = "waiting"

\* C29: count is an integer from 0 to max in every reachable state of the
\* clients, of the sequential loop, of the timed run and of the stages (whose
\* semaphores have 5 permits): every release of the model follows a resolved
\* acquire of the same unit.
C29_CountWithinBounds ==
  /\ status = "ok" => count \in 0..max
  /\ tsem.count \in 0..tsem.max
  /\ \A s \in Stages : usem[s].count \in 0..StagePermits

\* Every task has come and gone on a semaphore of several permits, some were
\* suspended, and all the permits are back.
C29_Witness ==
  /\ status = "ok" /\ seqPc = "off"
  /\ max >= 2 /\ count = max
  /\ suspended # {}
  /\ \A t \in Tasks : pc[t] \in {"done", "failed"}

\* C30: an acquire issued while max tasks hold a permit is queued, and a
\* queued acquire stays queued through every step that is not a release
\* call: nothing else resolves it, fails it or takes it out of the queue. So
\* it stays suspended for ever if the holders never release.
C30_NoWayOutWithoutRelease ==
  /\ [][\A t \in Tasks :
          (pc[t] = "idle" /\ pc'[t] # "idle" /\ Cardinality(Holders) = max)
            => pc'[t] = "waiting"]_vars
  /\ [][(\A u \in Tasks : ~ReleaseCall(u)) =>
          \A t \in Tasks : pc[t] = "waiting" =>
            /\ pc'[t] = "waiting"
            /\ \E i \in DOMAIN waiters' : waiters'[i] = t]_vars
  /\ [](\A t \in Tasks : pc[t] = "waiting" => \E i \in DOMAIN waiters : waiters[i] = t)

\* All the permits are held, no release was ever called, and every task that
\* came afterwards is queued.
C30_Witness ==
  /\ status = "ok" /\ NoRelease
  /\ Cardinality({t \in Tasks : pc[t] = "holding"}) = max
  /\ Len(waiters) = NumTasks - max
  /\ \A t \in Tasks : t > max => pc[t] = "waiting"

\* The operations of the timed run that hold a permit.
TimedHolders == {t \in Tasks : tpc[t] \in {"acquired", "woken", "holding"}}

\* C31: permits are neither made nor lost: in every reachable state count
\* plus the number of permits granted and not yet released (a waiter that was
\* handed a permit and has not resumed counts as holding it) is max, for the
\* client tasks, the sequential loop, the timed run and the stages (5).
C31_PermitConservation ==
  /\ (status = "ok" /\ seqPc = "off") => count + Cardinality(Holders) = max
  /\ seqPc \notin {"off", "threw"} =>
       count + (IF seqPc \in {"acquired", "holding"} THEN 1 ELSE 0) = max
  /\ pauseMs > 0 => tsem.count + Cardinality(TimedHolders) = tsem.max
  /\ \A s \in Stages : UnitsOf(s) # {} =>
       usem[s].count + Cardinality(UnitHolders(s)) = StagePermits

\* A waiter has been handed the permit of a release and has not resumed,
\* other tasks hold the rest, and one more is queued.
C31_Witness ==
  /\ status = "ok" /\ max >= 2 /\ count = 0
  /\ Cardinality({t \in Tasks : pc[t] = "woken"}) = 1
  /\ Cardinality({t \in Tasks : pc[t] = "holding"}) = max - 1
  /\ Len(waiters) = 1

\* The tasks of the misuse run that hold a permit.
MisuseHolders == {t \in Tasks : mpc[t] \in {"acquired", "woken", "holding"}}

\* C32: release is not guarded: a release call that matches no acquire and
\* finds no waiter adds 1 to count whatever count is, also at max and above;
\* every such call is one more permit (count plus the permits held is max
\* plus the number of these calls), so that count exceeds max and more than
\* max tasks hold a permit at once.
C32_StrayReleaseAddsAPermit ==
  /\ [][(extra' = extra + 1 /\ msem.waiters = <<>>) =>
          (msem'.count = msem.count + 1 /\ msem'.waiters = <<>>)]_vars
  /\ [](msem.count + Cardinality(MisuseHolders) = msem.max + extra)
  /\ [](extra = 0 => msem.count <= msem.max)

\* After release calls on the fresh semaphore and no other release, more
\* than max tasks have acquired without being queued and run their guarded
\* operation at once.
C32_Witness ==
  /\ msem.max >= 1 /\ extra >= 1
  /\ \A t \in Tasks : mpc[t] # "done"
  /\ msem.waiters = <<>>
  /\ Cardinality({t \in Tasks : mpc[t] = "holding"}) > msem.max

\* C33: a step resumes at most one suspended acquirer, and only a release
\* call does; a pending request is resolved at most once: the queue holds
\* each suspended task that has not been resolved exactly once and nobody
\* else, so that no request leaves the queue unresolved and none that was
\* resolved is still in it, and a task that was resolved is never queued again.
C33_ResolvedExactlyOnce ==
  /\ [][Cardinality({t \in Tasks : pc[t] # "woken" /\ pc'[t] = "woken"}) <= 1]_vars
  /\ [][\A t \in Tasks : (pc[t] # "woken" /\ pc'[t] = "woken") =>
          (pc[t] = "waiting" /\ \E u \in Tasks \ {t} : ReleaseCall(u))]_vars
  /\ [][\A t \in Tasks : pc[t] \notin {"idle", "waiting"} => pc'[t] # "waiting"]_vars
  /\ [](/\ \A i, j \in DOMAIN waiters : i # j => waiters[i] # waiters[j]
        /\ {waiters[i] : i \in DOMAIN waiters} = {t \in Tasks : pc[t] = "waiting"})
  /\ [](\A t \in Tasks : pc[t] = "woken" => t \in suspended)

\* Two suspended acquirers have each been resumed by a release of their own
\* and another one is still queued.
C33_Witness ==
  /\ status = "ok"
  /\ Cardinality({t \in suspended : pc[t] \in {"holding", "done", "failed"}}) >= 2
  /\ Cardinality({t \in Tasks : releases[t] = 1}) >= 2
  /\ \E t \in suspended : pc[t] = "waiting"

\* C34: once every unit of a stage's fan-out has settled, returned or
\* failed, the semaphore of the stage is as it was made: count is 5 and no
\* waiter is queued.
C34_StageSemaphoreRestored ==
  \A s \in Stages :
    (UnitsOf(s) # {} /\ UnitsOf(s) = UnitsSettled(s)) =>
      (usem[s].count = StagePermits /\ usem[s].waiters = <<>>)

\* The classify stage had more units than permits, one of them failed, and
\* all have settled.
C34_Witness ==
  /\ Cardinality(UnitsOf("classify")) > StagePermits
  /\ UnitsOf("classify") = UnitsSettled("classify")
  /\ \E u \in Units : upc["classify"][u] = "failed"
  /\ \E u \in Units : upc["classify"][u] = "ok"
  /\ usem["classify"].count = StagePermits

\* C35: what the fetch stage returns is the list of the issues that the
\* single-page fetch keeps on any page of the upstream and that have no
\* linked pull request, each exactly once: no issue is collected twice, and
\* no issue of a later page is missing because items of an earlier page were
\* dropped.
C35_FetchIsCompleteAndExact ==
  /\ \A i, j \in DOMAIN allIssues : i # j => allIssues[i] # allIssues[j]
  /\ stage \in {"fetched", "classify", "label", "end", "error"} =>
       {allIssues[k] : k \in DOMAIN allIssues}
         = {i \in (1..pageSize) \cup {pageLength + k : k \in 1..later} : ~HasPr(i)}

\* C36: in one run no issue gets two label writes, whatever the classifier
\* lists for a batch: an issue number more than once, or the number of an
\* issue of another batch.
C36_AtMostOneWritePerIssue ==
  (fn = "labelIssues" /\ fnPc = "returned") =>
    \A k, l \in DOMAIN ret : k # l => ret[k].issue_number # ret[l].issue_number

\* The raw issue of a page is a pull request, was created before the cutoff,
\* or carries a label that names it a good first issue.
C37_Excluded(issue, since) ==
  \/ issue.pull_request
  \/ issue.created_at < since
  \/ \E i \in DOMAIN issue.labels :
       issue.labels[i].hasName /\ issue.labels[i].name \in C20_GoodFirstIssueNames

\* C37: end to end, no pull request, no issue with a linked pull request, no
\* issue created before the cutoff and no issue that already carries a
\* good-first-issue label is sent to the classifier or labelled: the page
\* fetch returns none of the first, third and fourth kind, the fetch stage
\* drops the second, the classifier and the label stage work on issues of
\* the fetch result only, and the labelled issues are among the fetched ones.
C37_OnlyQualifyingIssuesAreProcessed ==
  /\ LET fetched == {allIssues[k] : k \in DOMAIN allIssues} IN
       /\ \A u \in fetched : ~HasPr(u)
       /\ UnitsOf("classify") \subseteq fetched
       /\ positive \subseteq fetched
       /\ UnitsOf("label") \subseteq fetched
       /\ WrittenNumbers \subseteq fetched
  /\ (fn = "getLastWeekIssuesSinglePage" /\ fnPc = "returned") =>
       \A k \in DOMAIN ret :
         \E i \in DOMAIN arg.response.data :
           /\ arg.response.data[i].defined
           /\ arg.response.data[i].number = ret[k].number
           /\ ~C37_Excluded(arg.response.data[i], arg.since)
  /\ (fn = "areGoodFirstIssues" /\ fnPc = "returned") =>
       {ret[k].number : k \in DOMAIN ret}
         \subseteq {arg.issues[i].number : i \in DOMAIN arg.issues}
  /\ (fn = "labelIssues" /\ fnPc = "returned") =>
       {ret[k].issue_number : k \in DOMAIN ret}
         \subseteq {arg.issues[i].number : i \in DOMAIN arg.issues}

\* main returned on an upstream of five issues: issue 4, which has a linked
\* pull request, was neither classified nor labelled, issues 3 and 5 were
\* labelled.
C37_Witness ==
  /\ stage = "end"
  /\ pageSize = 5
  /\ UnitsOf("classify") = {1, 2, 3, 5}
  /\ WrittenNumbers = {3, 5}

\* C38: batchIssues never produces an empty chunk: n issues give
\* ceil(n / 10) chunks of 1 to 10 issues each, so that classifyIssues never
\* calls the classifier unit, which reads the first and the last issue of
\* its batch, on an empty batch, and the unit never fails for that reason.
C38_NoEmptyChunk ==
  /\ (fn = "batchIssues" /\ fnPc = "returned") =>
       /\ issuesBatchSize * Len(ret) >= Len(arg)
       /\ issuesBatchSize * Len(ret) < Len(arg) + issuesBatchSize
       /\ \A k \in DOMAIN ret : ret[k] # <<>> /\ Len(ret[k]) <= issuesBatchSize
  /\ fn = "classifyIssues" =>
       /\ \A k \in DOMAIN batchIssues(arg.issues) : batchIssues(arg.issues)[k] # <<>>
       /\ fnPc # "threw"

\* batchIssues has returned the two full chunks of 20 issues, and no third.
C38_Witness ==
  /\ fn = "batchIssues" /\ fnPc = "returned"
  /\ Len(arg) = 2 * issuesBatchSize
  /\ Len(ret) = 2
  /\ Len(ret[2]) = issuesBatchSize

\* The number of results in the batches before batch k.
RECURSIVE C39_Before(_, _)
C39_Before(batches, k) ==
  IF k = 1 THEN 0 ELSE C39_Before(batches, k - 1) + Len(batches[k - 1])

\* C39: flattenBatchedIssues returns the concatenation of its batches, in
\* their order and in the order of each batch (result j of batch k comes
\* right after the results of the batches before k and the j - 1 results
\* before it in its batch), and so undoes batchIssues: the chunks of xs
\* flatten to xs, with its length, elements and order.
C39_FlattenUndoesBatching ==
  (fn = "flattenBatchedIssues" /\ fnPc = "returned") =>
    /\ Len(ret) = C39_Before(arg, Len(arg) + 1)
    /\ \A k \in DOMAIN arg : \A j \in DOMAIN arg[k] :
         ret[C39_Before(arg, k) + j] = arg[k][j]
    /\ \A n \in 0..MaxItems :
         arg = batchIssues(githubIssues(n)) => ret = githubIssues(n)
    /\ arg = goodFirstIssues => (Len(ret) = 10 /\ ret[1] = 201 /\ ret[10] = 210)

\* The three chunks of 21 issues were flattened to the 21 issues.
C39_Witness ==
  /\ fn = "flattenBatchedIssues" /\ fnPc = "returned"
  /\ Len(arg) = 3
  /\ arg = batchIssues(githubIssues(2 * issuesBatchSize + 1))
  /\ ret = githubIssues(2 * issuesBatchSize + 1)

====
